---- MODULE Spec2Model ----
(***************************************************************************)
(* A model of bot.py, the Telegram media downloader: the download and      *)
(* delivery pipeline (download_single_video, _handle_video_result, the two *)
(* playlist orchestrators, the single-audio handlers, the Instagram        *)
(* handler), the Gofile upload client and sanitize_filename.               *)
(*                                                                         *)
(* One behaviour of Spec is one job: Init draws the job kind and its       *)
(* inputs, every awaited call is one step, and a call that can raise       *)
(* (a Telegram call, the extractor, an HTTP request) either returns or     *)
(* raises, chosen nondeterministically.                                    *)
(***************************************************************************)
EXTENDS Integers, Sequences, FiniteSets, TLC

VARIABLES
  kind,                  \* which handler runs: the job kind
  manifest,              \* playlist_info['entries'] as the extractor reports it
  excText,               \* str(e) of the exceptions raised in this run
  pc,                    \* position in the running handler
  dirs,                  \* the temporary directories that exist on disk
  made,                  \* how many directories tempfile.mkdtemp() has created
  temp_dir,              \* the local temp_dir / tmpdir (0: None or unbound)
  video_path,            \* download_single_video's video_path
  thumb_path,            \* download_single_video's thumbnail_path
  file_size,             \* os.path.getsize of the artifact being delivered
  route,                 \* the delivery channel last chosen for an artifact
  files,                 \* downloaded_files of the Instagram handler (their sizes)
  j,                     \* index of the Instagram file being sent
  status,                \* the live status messages: message id -> text
  videos,                \* the entries after videos[:MAX_PLAYLIST_SIZE]
  total_videos,
  i,                     \* enumerate(videos, 1): the item being processed
  successful_downloads,
  failed_downloads,
  processed,             \* ids of the entries whose loop body has started
  summary,               \* the summary messages sent (none: <<>>)
  nExtract,              \* extract_info(download=True) calls made
  nStatus,               \* status messages created for items
  delivered,             \* the current item's artifact reached the user
  result,                \* what _handle_video_result returned
  escaped,               \* an exception left the handler
  thrown,                \* items whose extraction raised
  otherFaults,           \* calls other than an extraction that failed: 0, 1, 2 or more
  metadata,              \* download_single_video: title and uploader are returned
  exhausted,             \* upload_to_gofile raised for the current item
  paced,                 \* asyncio.sleep(2) ran after the current item
  vanished,              \* no file is at video_path, though the directory is on disk
  attempt,               \* upload_to_gofile: the loop variable
  server,                \* upload_to_gofile: the server of this attempt
  slept,                 \* upload_to_gofile: seconds slept by this pass of the loop
  posts,                 \* upload_to_gofile: POST requests made by this call
  lastOutcome,           \* upload_to_gofile: how the last attempt ended
  upResult,              \* upload_to_gofile: the returned download page
  name, san1, san2,      \* sanitize_filename: input, one and two applications
  img, box, thumb,       \* the thumbnail: size of the fetched image, the crop box,
                         \* size of the resized image
  info_dict,             \* what extract_info returned: key -> value, or absent
  uploader, title,       \* download_single_video: the metadata of lines 801-802
  user_data,             \* context.user_data of the one user: key -> value, or absent
  keyboards,             \* the messages that carry a format keyboard, oldest first
  started,               \* the downloads the format callbacks have started
  msg_text,              \* url_handler: update.message.text
  dispatched,            \* url_handler: the branches this message was given to
  handles                \* the files in the workspace that are open for reading

inputVars == <<kind, manifest, excText>>
fsVars    == <<dirs, made, temp_dir>>
artVars   == <<video_path, thumb_path, file_size, route, files, j>>
batchVars == <<videos, total_videos, i, successful_downloads, failed_downloads,
               processed, summary>>
histVars  == <<nExtract, nStatus, delivered, thrown, otherFaults>>
ctlVars   == <<result, escaped>>
obsVars   == <<metadata, exhausted, paced, vanished>>
upVars    == <<attempt, server, slept, posts, lastOutcome, upResult>>
sanVars   == <<name, san1, san2>>
cropVars  == <<img, box, thumb>>
metaVars  == <<info_dict, uploader, title>>
pendVars  == <<user_data, keyboards, started>>
msgVars   == <<msg_text, dispatched>>
vars == <<inputVars, pc, fsVars, artVars, status, batchVars, histVars, ctlVars,
          obsVars, upVars, sanVars, cropVars, metaVars, pendVars, msgVars, handles>>

Min(a, b) == IF a < b THEN a ELSE b

\* the count of failed calls tells none, one, two or more
OneMore(n) == IF n < 2 THEN n + 1 ELSE n

(***************************************************************************)
(* Configuration (bot.py, lines 28-29).  Both limits are read from the     *)
(* environment; MAX_FILE_SIZE_MB keeps its default, MAX_PLAYLIST_SIZE is   *)
(* the deployment MAX_PLAYLIST_SIZE=3 so that a whole batch is explored.   *)
(***************************************************************************)
MAX_PLAYLIST_SIZE == 3
MAX_FILE_SIZE_MB == 49
MiB == 1024 * 1024

(***************************************************************************)
(* sanitize_filename.  A str is a sequence of one-character strings.       *)
(***************************************************************************)
DefaultMaxLength == 100
MaxWord == 2

unknown_media == <<"u", "n", "k", "n", "o", "w", "n", "_", "m", "e", "d", "i", "a">>

\* the character class [\\/*?:"<>|] of the re.sub
InvalidChars == {"\\", "/", "*", "?", ":", "\"", "<", ">", "|"}

\* what str.strip() removes (of the characters the inputs are built from)
Whitespace == {" ", "\t", "\n"}

RECURSIVE lstrip(_)
lstrip(s) ==
  IF s # <<>> /\ Head(s) \in Whitespace THEN lstrip(Tail(s)) ELSE s

RECURSIVE rstrip(_)
rstrip(s) ==
  IF s # <<>> /\ s[Len(s)] \in Whitespace
    THEN rstrip(SubSeq(s, 1, Len(s) - 1))
    ELSE s

strip(s) == rstrip(lstrip(s))

\* re.sub(r'[\\/*?:"<>|]', "_", name)
re_sub_invalid(s) ==
  [k \in 1..Len(s) |-> IF s[k] \in InvalidChars THEN "_" ELSE s[k]]

\* sanitized[:max_length]
Truncate(s, max_length) == SubSeq(s, 1, Min(Len(s), max_length))

\* a different rule: the invalid characters are deleted instead of replaced
RECURSIVE DeleteInvalid(_)
DeleteInvalid(s) ==
  IF s = <<>> THEN <<>>
  ELSE IF Head(s) \in InvalidChars THEN DeleteInvalid(Tail(s))
  ELSE <<Head(s)>> \o DeleteInvalid(Tail(s))

sanitize_filename_deleting(s, max_length) ==
  IF s = <<>> THEN unknown_media
  ELSE LET t == strip(Truncate(DeleteInvalid(s), max_length))
       IN IF t = <<>> THEN unknown_media ELSE t

\* a different rule: strip() is applied before the truncation
sanitize_filename_strip_first(s, max_length) ==
  IF s = <<>> THEN unknown_media
  ELSE LET t == Truncate(strip(re_sub_invalid(s)), max_length)
       IN IF t = <<>> THEN unknown_media ELSE t

sanitize_filename(s, max_length) ==
  IF s = <<>> THEN unknown_media
  ELSE LET t == strip(Truncate(re_sub_invalid(s), max_length))
       IN IF t = <<>> THEN unknown_media ELSE t

(***************************************************************************)
(* The strings sanitize_filename is run on: a word, a run of one character *)
(* whose length brings the string to the truncation point, a word.         *)
(***************************************************************************)
SanAlphabet == {"a", " ", "/", "*"}
PadChars == {"a", " ", "/"}

Words == UNION {[1..n -> SanAlphabet] : n \in 0..MaxWord}

PadLengths == {0} \cup ((DefaultMaxLength - 2 * MaxWord)..(DefaultMaxLength + 1))

Pad(c, n) == [k \in 1..n |-> c]

SanInputs ==
  {w1 \o Pad(c, n) \o w2 : w1 \in Words, w2 \in Words, c \in PadChars, n \in PadLengths}

(***************************************************************************)
(* The state before a handler runs.                                        *)
(***************************************************************************)
NoEntries == <<>>

\* message 0 is the message the handler was given or created first; message k
\* is the status message of playlist item k
NoStatus == [m \in 0..MAX_PLAYLIST_SIZE |-> "absent"]

PipelineIdle ==
  /\ dirs = {} /\ made = 0 /\ temp_dir = 0
  /\ video_path = "none" /\ thumb_path = "none" /\ file_size = 0 /\ route = "none"
  /\ files = <<>> /\ j = 0
  /\ videos = <<>> /\ total_videos = 0 /\ i = 0
  /\ successful_downloads = 0 /\ failed_downloads = 0
  /\ processed = <<>> /\ summary = <<>>
  /\ nExtract = 0 /\ nStatus = 0 /\ delivered = FALSE
  /\ result = "none" /\ escaped = FALSE
  /\ thrown = {} /\ otherFaults = 0
  /\ metadata = "none" /\ exhausted = FALSE /\ paced = FALSE /\ vanished = FALSE
  /\ handles = {}

CropIdle == img = <<0, 0>> /\ box = <<>> /\ thumb = <<>>

MetaIdle == info_dict = <<>> /\ uploader = "" /\ title = ""
PendIdle == user_data = <<>> /\ keyboards = <<>> /\ started = {}
MsgIdle == msg_text = <<>> /\ dispatched = <<>>

UploadIdle ==
  /\ attempt = 0 /\ server = -1 /\ slept = 0 /\ posts = 0
  /\ lastOutcome = "none" /\ upResult = 0

SanitizeIdle == name = <<>> /\ san1 = <<>> /\ san2 = <<>>

(***************************************************************************)
(* The texts of the except handlers.  Every handler binds the exception as *)
(* e, passes it to the logger (lines 382, 483, 541, 738, 839, 896, 973,    *)
(* 1095) and shows a literal.                                              *)
(***************************************************************************)
\* str(e) of the exceptions a run can raise; none in a run of a pure function
ExcTexts == {"Timed out", "Forbidden: bot was blocked by the user"}
NoText == ""

\* a different rule: the handler shows the exception
FailureText_quoting(literal, e) == e

\* the text an except handler shows for the exception e
FailureText(literal, e) == literal

(***************************************************************************)
(* upload_to_gofile (lines 82-112).                                        *)
(***************************************************************************)
max_retries == 5
base_delay == 5

\* random.randint(1, 9): the fallback servers store1..store9
FallbackServers == 1..9

\* How the upload of one pass (lines 98-107) can end:
\*   open_error       open(file_path, "rb") raises, no POST is made
\*   ok               status "ok" with data.downloadPage
\*   ok_no_page       status "ok", data["data"]["downloadPage"] raises KeyError
\*   not_ok           a body whose status is not "ok"
\*   http_error       raise_for_status() raises
\*   transport_error  the POST itself raises (timeout, connection)
PostOutcomes ==
  {"open_error", "ok", "ok_no_page", "not_ok", "http_error", "transport_error"}
RaisingOutcomes == {"open_error", "ok_no_page", "http_error", "transport_error"}

\* lines 110-111: the seconds the except clause sleeps after pass a
BackoffAfter(a) ==
  IF a < max_retries - 1 THEN base_delay * (2 ^ a) ELSE 0

\* lines 89-92: the lookup returns a server; or the GET times out, answers an
\* HTTP error, or its body is not JSON or lacks data.server
LookupOutcomes == {"ok", "timeout", "http_error", "malformed"}

\* a different rule: a failed lookup fails the attempt
UploadGetServer_failing ==
  /\ pc = "up_attempt"
  /\ \E lookup \in LookupOutcomes :
       /\ server' = IF lookup = "ok" THEN 0 ELSE -1
       /\ pc' = IF lookup = "ok" THEN "up_post" ELSE "up_except"
  /\ lastOutcome' = "none"
  /\ slept' = 0
  /\ UNCHANGED <<inputVars, obsVars, fsVars, artVars, status, batchVars, histVars, ctlVars,
                 attempt, posts, upResult, sanVars,
                 cropVars, metaVars, pendVars, msgVars, handles>>

\* lines 89-95: the server of this attempt, the directory's answer (0) or, when
\* the lookup raises, store<random.randint(1, 9)>
UploadGetServer ==
  /\ pc = "up_attempt"
  /\ \E lookup \in LookupOutcomes, n \in FallbackServers :
       server' = IF lookup = "ok" THEN 0 ELSE n
  /\ lastOutcome' = "none"
  /\ slept' = 0
  /\ pc' = "up_post"
  /\ UNCHANGED <<inputVars, obsVars, fsVars, artVars, status, batchVars, histVars, ctlVars,
                 attempt, posts, upResult, sanVars,
                 cropVars, metaVars, pendVars, msgVars, handles>>

\* lines 98-102: the file is opened and the POST is made with it (server is
\* not read after the POST); an open that fails goes to the except clause
UploadPost ==
  /\ pc = "up_post"
  /\ \E opened \in BOOLEAN :
       IF opened
         THEN /\ handles' = handles \cup {"upload"}
              /\ posts' = posts + 1
              /\ pc' = "up_answer"
              /\ UNCHANGED lastOutcome
         ELSE /\ lastOutcome' = "open_error"
              /\ pc' = "up_except"
              /\ UNCHANGED <<handles, posts>>
  /\ server' = -1
  /\ UNCHANGED <<inputVars, obsVars, fsVars, artVars, status, batchVars, histVars, ctlVars,
                 attempt, slept, upResult, sanVars,
                 cropVars, metaVars, pendVars, msgVars>>

\* lines 102-107: the POST is answered or raises; the with block of line 99
\* closes the file on the return, on the exception and at its end
UploadAnswer ==
  /\ pc = "up_answer"
  /\ \E outcome \in PostOutcomes \ {"open_error"} :
       /\ lastOutcome' = outcome
       /\ upResult' = IF outcome = "ok" THEN attempt + 1 ELSE upResult
       /\ pc' = CASE outcome = "ok" -> "up_return"
                  [] outcome \in RaisingOutcomes -> "up_except"
                  [] OTHER -> "up_next"
  /\ handles' = handles \ {"upload"}
  /\ UNCHANGED <<inputVars, obsVars, fsVars, artVars, status, batchVars, histVars, ctlVars,
                 attempt, server, slept, posts, sanVars,
                 cropVars, metaVars, pendVars, msgVars>>

\* lines 108-111: except Exception: log, sleep unless this was the last attempt
UploadExcept ==
  /\ pc = "up_except"
  /\ slept' = BackoffAfter(attempt)
  /\ pc' = "up_next"
  /\ UNCHANGED <<inputVars, obsVars, fsVars, artVars, status, batchVars, histVars, ctlVars,
                 attempt, server, posts, lastOutcome, upResult, sanVars,
                 cropVars, metaVars, pendVars, msgVars, handles>>

\* a different rule: the loop makes one pass more
UploadNext_one_more ==
  /\ pc = "up_next"
  /\ IF attempt + 1 < max_retries + 1
       THEN attempt' = attempt + 1 /\ pc' = "up_attempt"
       ELSE attempt' = attempt /\ pc' = "up_raise"
  /\ UNCHANGED <<inputVars, obsVars, fsVars, artVars, status, batchVars, histVars, ctlVars,
                 server, slept, posts, lastOutcome, upResult, sanVars,
                 cropVars, metaVars, pendVars, msgVars, handles>>

\* line 86 and line 112: the next pass of for attempt in range(max_retries), or
\* the raise after the loop
UploadNext ==
  /\ pc = "up_next"
  /\ IF attempt + 1 < max_retries
       THEN attempt' = attempt + 1 /\ pc' = "up_attempt"
       ELSE attempt' = attempt /\ pc' = "up_raise"
  /\ UNCHANGED <<inputVars, obsVars, fsVars, artVars, status, batchVars, histVars, ctlVars,
                 server, slept, posts, lastOutcome, upResult, sanVars,
                 cropVars, metaVars, pendVars, msgVars, handles>>

UploadNextStep ==
  UploadGetServer \/ UploadPost \/ UploadAnswer \/ UploadExcept \/ UploadNext

\* a call of upload_to_gofile on its own
InitUpload ==
  /\ kind = "upload" /\ manifest = NoEntries /\ excText = NoText /\ pc = "up_attempt"
  /\ status = NoStatus
  /\ PipelineIdle /\ UploadIdle /\ SanitizeIdle /\ CropIdle /\ MetaIdle /\ PendIdle /\ MsgIdle

SpecUpload == InitUpload /\ [][UploadNextStep]_vars

(***************************************************************************)
(* Jobs.                                                                   *)
(***************************************************************************)
VideoKinds == {"video", "vplaylist"}
PlaylistKinds == {"vplaylist", "aplaylist"}
JobKinds == {"video", "vplaylist", "audio", "ytmusic", "aplaylist", "instagram"}

\* a playlist entry: its place in the manifest, and whether it carries a 'url'
\* or a 'webpage_url' (n entries, entry `without` has none; 0: every entry has)
ManifestOf(n, without) == [k \in 1..n |-> [id |-> k, hasUrl |-> k # without]]
Manifests ==
  {ManifestOf(n, without) : n \in 0..(MAX_PLAYLIST_SIZE + 1),
                            without \in 0..(MAX_PLAYLIST_SIZE + 1)}

\* the sizes a produced file can have: around the inline limit
Sizes ==
  {MAX_FILE_SIZE_MB * MiB - 1, MAX_FILE_SIZE_MB * MiB, MAX_FILE_SIZE_MB * MiB + 1}

\* the status message the running pipeline edits, and the item it works on
CurStatus == IF kind \in PlaylistKinds THEN i ELSE 0

SetStatus(text) == status' = [status EXCEPT ![CurStatus] = text]

\* When the loop moves on, the message of the item left behind is either gone
\* or stays as it is: its text is never read or edited again, and the model
\* keeps only that it is still shown.
LeftBehind(st, k) ==
  IF k >= 1 /\ st[k] \notin {"absent", "deleted"}
    THEN [st EXCEPT ![k] = "shown"]
    ELSE st

\* tempfile.mkdtemp()
Mkdtemp ==
  /\ made' = made + 1
  /\ dirs' = dirs \cup {made + 1}
  /\ temp_dir' = made + 1

\* shutil.rmtree(d, ignore_errors=True)
Rmtree(d) == dirs' = dirs \ {d}

\* a / b of two ints, exact here (b is a power of two): whole + rest / b
TrueDiv(a, b) == [whole |-> a \div b, rest |-> a % b]
ExceedsInt(x, n) == x.whole > n \/ (x.whole = n /\ x.rest > 0)

\* a different rule: the quotient is floored before the comparison (//)
RouteOfVideo_floor(size) ==
  IF size \div MiB > MAX_FILE_SIZE_MB THEN "remote" ELSE "inline"

\* lines 920-921, 935: file_size_mb = file_size_bytes / (1024 * 1024);
\* if file_size_mb > MAX_FILE_SIZE_MB: upload, else: send
RouteOfVideo(size) ==
  IF ExceedsInt(TrueDiv(size, MiB), MAX_FILE_SIZE_MB) THEN "remote" ELSE "inline"

\* lines 340, 468, 526, 696: if file_size <= MAX_FILE_SIZE_MB * 1024 * 1024:
\* send, else: upload
RouteOfFile(size) ==
  IF size <= MAX_FILE_SIZE_MB * 1024 * 1024 THEN "inline" ELSE "remote"

\* the locals of a call of upload_to_gofile
UploadEnter ==
  /\ attempt' = 0 /\ server' = -1 /\ slept' = 0 /\ posts' = 0
  /\ lastOutcome' = "none" /\ upResult' = 0

(***************************************************************************)
(* download_single_video (lines 754-842).                                  *)
(***************************************************************************)
\* line 756
DsvMkdtemp ==
  /\ pc = "dsv_mkdtemp"
  /\ Mkdtemp
  /\ pc' = "dsv_status"
  /\ UNCHANGED <<inputVars, obsVars, artVars, status, batchVars, histVars, ctlVars, upVars,
                 sanVars,
                 cropVars, metaVars, pendVars, msgVars, handles>>

\* lines 784-786: the "Starting download..." edit
DsvStartStatus ==
  /\ pc = "dsv_status"
  /\ \E ok \in BOOLEAN :
       IF ok
         THEN /\ SetStatus("starting")
              /\ pc' = "dsv_extract"
              /\ UNCHANGED otherFaults
         ELSE /\ pc' = "dsv_except"
              /\ otherFaults' = OneMore(otherFaults)
              /\ UNCHANGED status
  /\ UNCHANGED <<inputVars, obsVars, fsVars, artVars, batchVars, nExtract, nStatus, delivered,
                 thrown, ctlVars, upVars, sanVars,
                 cropVars, metaVars, pendVars, msgVars, handles>>

\* lines 789-798: extract_info(url, download=True), then the produced file:
\* info_dict['filepath'] when it exists, else the first media file of tmpdir,
\* else raise
DsvExtract ==
  /\ pc = "dsv_extract"
  /\ nExtract' = nExtract + 1
  /\ \E outcome \in {"throw", "reported", "scanned", "no_file"}, size \in Sizes :
       CASE outcome = "throw" ->
              /\ thrown' = thrown \cup {CurStatus}
              /\ pc' = "dsv_except"
              /\ UNCHANGED <<video_path, file_size, metadata, otherFaults>>
         [] outcome = "no_file" ->
              /\ otherFaults' = OneMore(otherFaults)
              /\ pc' = "dsv_except"
              /\ UNCHANGED <<video_path, file_size, metadata, thrown>>
         [] OTHER ->
              /\ video_path' = "orig"
              /\ file_size' = size
              /\ metadata' = "set"
              /\ pc' = "dsv_thumbnail"
              /\ UNCHANGED <<thrown, otherFaults>>
  /\ UNCHANGED <<inputVars, exhausted, paced, vanished, fsVars, thumb_path, route, files, j, status, batchVars,
                 nStatus, delivered, ctlVars, upVars, sanVars,
                 cropVars, metaVars, pendVars, msgVars, handles>>

\* the steps of the thumbnail block that can raise: the "Processing thumbnail"
\* edit (809-810), the HTTP fetch (811-813), the write of the fetched bytes
\* (814-816), Image.open (817), crop and resize (818-822), the JPEG save (824)
ThumbnailSteps == {"edit", "fetch", "write", "decode", "crop", "save"}

\* a different rule: the failure of a thumbnail step reaches the handler of
\* download_single_video
DsvThumbnail_propagating ==
  /\ pc = "dsv_thumbnail"
  /\ \E outcome \in {"no_url", "ok"} \cup ThumbnailSteps :
       /\ thumb_path' = IF outcome = "ok" THEN "written" ELSE "none"
       /\ status' = IF outcome \notin {"no_url", "edit"}
                      THEN [status EXCEPT ![CurStatus] = "thumbnail"]
                      ELSE status
       /\ otherFaults' = IF outcome \in ThumbnailSteps
                           THEN OneMore(otherFaults)
                           ELSE otherFaults
       /\ pc' = IF outcome \in ThumbnailSteps THEN "dsv_except" ELSE "dsv_rename"
  /\ UNCHANGED <<inputVars, obsVars, fsVars, video_path, file_size, route, files, j, batchVars,
                 nExtract, nStatus, delivered, thrown, ctlVars, upVars, sanVars,
                 cropVars, metaVars, pendVars, msgVars, handles>>

\* lines 803-826: the thumbnail; the failure of any step is caught and logged
\* (825-826).  thumbnail_path is assigned on line 823, before the save of
\* line 824: it is set when the save fails, and unset when an earlier step does.
DsvThumbnail ==
  /\ pc = "dsv_thumbnail"
  /\ \E outcome \in {"no_url", "ok"} \cup ThumbnailSteps :
       /\ thumb_path' = CASE outcome = "ok" -> "written"
                          [] outcome = "save" -> "unwritten"
                          [] OTHER -> "none"
       /\ status' = IF outcome \notin {"no_url", "edit"}
                      THEN [status EXCEPT ![CurStatus] = "thumbnail"]
                      ELSE status
       /\ otherFaults' = IF outcome \in ThumbnailSteps
                           THEN OneMore(otherFaults)
                           ELSE otherFaults
  /\ pc' = "dsv_rename"
  /\ UNCHANGED <<inputVars, obsVars, fsVars, video_path, file_size, route, files, j, batchVars,
                 nExtract, nStatus, delivered, thrown, ctlVars, upVars, sanVars,
                 cropVars, metaVars, pendVars, msgVars, handles>>

\* a different rule: the path is replaced before the rename is known to
\* have worked
DsvRename_dangling ==
  /\ pc = "dsv_rename"
  /\ \E ok \in BOOLEAN :
       /\ video_path' = "renamed"
       /\ vanished' = ~ok
       /\ otherFaults' = IF ok THEN otherFaults ELSE OneMore(otherFaults)
  /\ pc' = "hvr_start"
  /\ UNCHANGED <<inputVars, metadata, exhausted, paced, fsVars, thumb_path, file_size, route, files, j, status,
                 batchVars, nExtract, nStatus, delivered, thrown, ctlVars, upVars,
                 sanVars,
                 cropVars, metaVars, pendVars, msgVars, handles>>

\* lines 829-837: os.rename to the sanitized title; an OSError keeps the path
DsvRename ==
  /\ pc = "dsv_rename"
  /\ \E ok \in BOOLEAN :
       /\ video_path' = IF ok THEN "renamed" ELSE video_path
       /\ otherFaults' = IF ok THEN otherFaults ELSE OneMore(otherFaults)
  /\ pc' = "hvr_start"
  /\ UNCHANGED <<inputVars, obsVars, fsVars, thumb_path, file_size, route, files, j, status,
                 batchVars, nExtract, nStatus, delivered, thrown, ctlVars, upVars,
                 sanVars,
                 cropVars, metaVars, pendVars, msgVars, handles>>

\* lines 838-842: except Exception: rmtree(tmpdir), return five None
DsvExcept ==
  /\ pc = "dsv_except"
  /\ Rmtree(temp_dir)
  /\ temp_dir' = 0
  /\ video_path' = "none" /\ thumb_path' = "none" /\ metadata' = "none"
  /\ pc' = "hvr_start"
  /\ UNCHANGED <<inputVars, exhausted, paced, vanished, made, file_size, route, files, j, status, batchVars,
                 histVars, ctlVars, upVars, sanVars,
                 cropVars, metaVars, pendVars, msgVars, handles>>

(***************************************************************************)
(* _handle_video_result (lines 910-983).                                   *)
(***************************************************************************)
\* line 912: video_path and os.path.exists(video_path)
ArtifactOnDisk == video_path # "none" /\ temp_dir \in dirs /\ ~vanished

\* the produced file disappears between the return of download_single_video
\* (line 837) and the test of line 912: the directory is in the shared temp
\* area and the program holds no lock on it
FileVanishes ==
  /\ pc = "hvr_start"
  /\ ArtifactOnDisk
  /\ vanished' = TRUE
  /\ otherFaults' = OneMore(otherFaults)
  /\ UNCHANGED <<inputVars, pc, metadata, exhausted, paced, fsVars, artVars, status,
                 batchVars, nExtract, nStatus, delivered, thrown, ctlVars, upVars,
                 sanVars, cropVars, metaVars, pendVars, msgVars, handles>>

\* a different rule: the file is not tested, a path is enough
HvrStart_trusting ==
  /\ pc = "hvr_start"
  /\ IF video_path # "none"
       THEN /\ route' = RouteOfVideo(file_size)
            /\ pc' = IF RouteOfVideo(file_size) = "remote"
                       THEN "hvr_large_status" ELSE "hvr_send_status"
       ELSE /\ pc' = "hvr_fail_status"
            /\ UNCHANGED route
  /\ UNCHANGED <<inputVars, obsVars, fsVars, video_path, thumb_path, file_size, files, j,
                 status, batchVars, histVars, ctlVars, upVars, sanVars, cropVars, metaVars, pendVars, msgVars, handles>>

\* lines 912-921, 935: the file test and the choice of the channel
HvrStart ==
  /\ pc = "hvr_start"
  /\ IF ArtifactOnDisk
       THEN /\ route' = RouteOfVideo(file_size)
            /\ pc' = IF RouteOfVideo(file_size) = "remote"
                       THEN "hvr_large_status" ELSE "hvr_send_status"
       ELSE /\ pc' = "hvr_fail_status"
            /\ UNCHANGED route
  /\ UNCHANGED <<inputVars, obsVars, fsVars, video_path, thumb_path, file_size, files, j,
                 status, batchVars, histVars, ctlVars, upVars, sanVars, cropVars, metaVars, pendVars, msgVars, handles>>

\* lines 922-927: the "Large file" edit, then the call of upload_to_gofile
HvrLargeStatus ==
  /\ pc = "hvr_large_status"
  /\ \E ok \in BOOLEAN :
       IF ok
         THEN /\ SetStatus("uploading")
              /\ pc' = "up_attempt"
              /\ UNCHANGED otherFaults
         ELSE /\ pc' = "hvr_except"
              /\ otherFaults' = OneMore(otherFaults)
              /\ UNCHANGED status
  /\ UploadEnter
  /\ UNCHANGED <<inputVars, obsVars, fsVars, artVars, batchVars, nExtract, nStatus, delivered,
                 thrown, ctlVars, sanVars,
                 cropVars, metaVars, pendVars, msgVars, handles>>

\* line 927: upload_to_gofile returned the link, or raised after its last attempt
HvrUploadDone ==
  /\ pc \in {"up_return", "up_raise"}
  /\ kind \in VideoKinds
  /\ IF pc = "up_return"
       THEN pc' = "hvr_send_link" /\ UNCHANGED otherFaults
       ELSE pc' = "hvr_except" /\ otherFaults' = OneMore(otherFaults)
  /\ UploadEnter
  /\ exhausted' = (pc = "up_raise")
  /\ UNCHANGED <<inputVars, metadata, paced, vanished, fsVars, artVars, status, batchVars, nExtract, nStatus,
                 delivered, thrown, ctlVars, sanVars,
                 cropVars, metaVars, pendVars, msgVars, handles>>

\* lines 928-934: the caption with the Gofile link is sent
HvrSendLink ==
  /\ pc = "hvr_send_link"
  /\ \E ok \in BOOLEAN :
       IF ok
         THEN delivered' = TRUE /\ pc' = "hvr_delete" /\ UNCHANGED otherFaults
         ELSE pc' = "hvr_except" /\ otherFaults' = OneMore(otherFaults) /\ UNCHANGED delivered
  /\ UNCHANGED <<inputVars, obsVars, fsVars, artVars, status, batchVars, nExtract, nStatus,
                 thrown, ctlVars, upVars, sanVars,
                 cropVars, metaVars, pendVars, msgVars, handles>>

\* lines 936-940: the "Sending video..." edit
HvrSendStatus ==
  /\ pc = "hvr_send_status"
  /\ \E ok \in BOOLEAN :
       IF ok
         THEN SetStatus("sending") /\ pc' = "hvr_send_video" /\ UNCHANGED otherFaults
         ELSE pc' = "hvr_except" /\ otherFaults' = OneMore(otherFaults) /\ UNCHANGED status
  /\ UNCHANGED <<inputVars, obsVars, fsVars, artVars, batchVars, nExtract, nStatus, delivered,
                 thrown, ctlVars, upVars, sanVars,
                 cropVars, metaVars, pendVars, msgVars, handles>>

\* lines 941-944: the video file is opened and, when thumb_path is set and
\* the file exists, the thumbnail; when the second open raises, the with
\* block closes the first
HvrSendVideo ==
  /\ pc = "hvr_send_video"
  /\ \E has_thumb \in {thumb_path = "written"} \cup
                       (IF thumb_path = "unwritten" THEN BOOLEAN ELSE {}),
        opened \in BOOLEAN :
       IF opened
         THEN /\ handles' = handles \cup {"video"} \cup
                               (IF has_thumb THEN {"thumb"} ELSE {})
              /\ pc' = "hvr_sending"
              /\ UNCHANGED otherFaults
         ELSE /\ pc' = "hvr_except"
              /\ otherFaults' = OneMore(otherFaults)
              /\ UNCHANGED handles
  /\ UNCHANGED <<inputVars, obsVars, fsVars, artVars, status, batchVars, nExtract, nStatus,
                 delivered, thrown, ctlVars, upVars, sanVars,
                 cropVars, metaVars, pendVars, msgVars>>

\* a different rule: the thumbnail is closed after a send that returned only
HvrSent_leaking ==
  /\ pc = "hvr_sending"
  /\ \E ok \in BOOLEAN :
       IF ok
         THEN /\ delivered' = TRUE /\ pc' = "hvr_delete" /\ UNCHANGED otherFaults
              /\ handles' = handles \ {"thumb", "video"}
         ELSE /\ pc' = "hvr_except" /\ otherFaults' = OneMore(otherFaults)
              /\ UNCHANGED delivered
              /\ handles' = handles \ {"video"}
  /\ UNCHANGED <<inputVars, obsVars, fsVars, artVars, status, batchVars, nExtract, nStatus,
                 thrown, ctlVars, upVars, sanVars,
                 cropVars, metaVars, pendVars, msgVars>>

\* lines 945-956: send_video returns or raises; the finally closes the
\* thumbnail and the with block the video file, on either way out
HvrSent ==
  /\ pc = "hvr_sending"
  /\ \E ok \in BOOLEAN :
       IF ok
         THEN delivered' = TRUE /\ pc' = "hvr_delete" /\ UNCHANGED otherFaults
         ELSE pc' = "hvr_except" /\ otherFaults' = OneMore(otherFaults) /\ UNCHANGED delivered
  /\ handles' = (handles \ {"thumb"}) \ {"video"}
  /\ UNCHANGED <<inputVars, obsVars, fsVars, artVars, status, batchVars, nExtract, nStatus,
                 thrown, ctlVars, upVars, sanVars,
                 cropVars, metaVars, pendVars, msgVars>>

\* a different rule: the status message of a delivered video is kept
HvrDelete_keeping ==
  /\ pc = "hvr_delete"
  /\ \E ok \in BOOLEAN :
       IF ok
         THEN /\ UNCHANGED status
              /\ result' = "true"
              /\ pc' = "hvr_finally"
              /\ UNCHANGED otherFaults
         ELSE /\ pc' = "hvr_except"
              /\ otherFaults' = OneMore(otherFaults)
              /\ UNCHANGED <<status, result>>
  /\ UNCHANGED <<inputVars, obsVars, fsVars, artVars, batchVars, nExtract, nStatus, delivered,
                 thrown, escaped, upVars, sanVars,
                 cropVars, metaVars, pendVars, msgVars, handles>>

\* lines 958-963: the status message is deleted, return True
HvrDelete ==
  /\ pc = "hvr_delete"
  /\ \E ok \in BOOLEAN :
       IF ok
         THEN /\ SetStatus("deleted")
              /\ result' = "true"
              /\ pc' = "hvr_finally"
              /\ UNCHANGED otherFaults
         ELSE /\ pc' = "hvr_except"
              /\ otherFaults' = OneMore(otherFaults)
              /\ UNCHANGED <<status, result>>
  /\ UNCHANGED <<inputVars, obsVars, fsVars, artVars, batchVars, nExtract, nStatus, delivered,
                 thrown, escaped, upVars, sanVars,
                 cropVars, metaVars, pendVars, msgVars, handles>>

\* lines 964-971: no file: the "Failed to download the content" edit, return False
HvrFailStatus ==
  /\ pc = "hvr_fail_status"
  /\ \E ok \in BOOLEAN :
       IF ok
         THEN /\ SetStatus("unavailable")
              /\ result' = "false"
              /\ pc' = "hvr_finally"
              /\ UNCHANGED otherFaults
         ELSE /\ pc' = "hvr_except"
              /\ otherFaults' = OneMore(otherFaults)
              /\ UNCHANGED <<status, result>>
  /\ UNCHANGED <<inputVars, obsVars, fsVars, artVars, batchVars, nExtract, nStatus, delivered,
                 thrown, escaped, upVars, sanVars,
                 cropVars, metaVars, pendVars, msgVars, handles>>

\* lines 972-979: except Exception: the "An error occurred" edit, return False;
\* when the edit raises, the exception leaves the function
HvrExcept ==
  /\ pc = "hvr_except"
  /\ \E ok \in BOOLEAN :
       IF ok
         THEN /\ SetStatus(FailureText("error", excText))
              /\ result' = "false"
              /\ UNCHANGED otherFaults
         ELSE /\ result' = "raise"
              /\ otherFaults' = OneMore(otherFaults)
              /\ UNCHANGED status
  /\ pc' = "hvr_finally"
  /\ UNCHANGED <<inputVars, obsVars, fsVars, artVars, batchVars, nExtract, nStatus, delivered,
                 thrown, escaped, upVars, sanVars,
                 cropVars, metaVars, pendVars, msgVars, handles>>

\* a different rule: the directory is removed on return only, not when the
\* handler's own edit raised
HvrFinally_leaking ==
  /\ pc = "hvr_finally"
  /\ IF temp_dir # 0 /\ temp_dir \in dirs /\ result # "raise"
       THEN Rmtree(temp_dir) ELSE UNCHANGED dirs
  /\ IF kind = "video"
       THEN pc' = "done" /\ escaped' = (result = "raise")
       ELSE /\ pc' = IF result = "raise" THEN "vp_except" ELSE "vp_count"
            /\ UNCHANGED escaped
  /\ UNCHANGED <<inputVars, obsVars, made, temp_dir, artVars, status, batchVars, histVars,
                 result, upVars, sanVars,
                 cropVars, metaVars, pendVars, msgVars, handles>>

\* lines 980-983: finally: rmtree(temp_dir) when it is set and exists; then the
\* caller goes on (lines 594 and 885-892)
HvrFinally ==
  /\ pc = "hvr_finally"
  /\ IF temp_dir # 0 /\ temp_dir \in dirs THEN Rmtree(temp_dir) ELSE UNCHANGED dirs
  /\ IF kind = "video"
       THEN pc' = "done" /\ escaped' = (result = "raise")
       ELSE /\ pc' = IF result = "raise" THEN "vp_except" ELSE "vp_count"
            /\ UNCHANGED escaped
  /\ UNCHANGED <<inputVars, obsVars, made, temp_dir, artVars, status, batchVars, histVars,
                 result, upVars, sanVars,
                 cropVars, metaVars, pendVars, msgVars, handles>>

(***************************************************************************)
(* process_playlist (lines 845-907).                                       *)
(***************************************************************************)
\* lines 643, 859: videos[:MAX_PLAYLIST_SIZE]
TruncateEntries(entries) ==
  SubSeq(entries, 1, Min(Len(entries), MAX_PLAYLIST_SIZE))

\* lines 635, 852: if original_total_videos > MAX_PLAYLIST_SIZE
TooLarge(n) == n > MAX_PLAYLIST_SIZE

\* lines 847-865: the size check, the slice, the "Playlist detected" edit
VpCheck ==
  /\ pc = "vp_check"
  /\ \E ok \in BOOLEAN :
       /\ IF TooLarge(Len(manifest))
            THEN /\ status' = IF ok THEN [status EXCEPT ![0] = "too_large"] ELSE status
                 /\ pc' = "done"
                 /\ UNCHANGED <<videos, total_videos>>
            ELSE /\ videos' = TruncateEntries(manifest)
                 /\ total_videos' = Len(TruncateEntries(manifest))
                 /\ status' = IF ok THEN [status EXCEPT ![0] = "detected"] ELSE status
                 /\ pc' = IF ok THEN "vp_loop" ELSE "done"
       /\ escaped' = ~ok
       /\ otherFaults' = IF ok THEN otherFaults ELSE OneMore(otherFaults)
  /\ UNCHANGED <<inputVars, obsVars, fsVars, artVars, i, successful_downloads,
                 failed_downloads, processed, summary, nExtract, nStatus, delivered,
                 thrown, result, upVars, sanVars,
                 cropVars, metaVars, pendVars, msgVars, handles>>

\* a different rule: an entry without URL is skipped without being counted
VpLoop_uncounted ==
  /\ pc = "vp_loop"
  /\ i < total_videos
  /\ i' = i + 1
  /\ processed' = Append(processed, videos[i + 1].id)
  /\ delivered' = FALSE
  /\ metadata' = "none" /\ exhausted' = FALSE /\ paced' = FALSE /\ vanished' = FALSE
  /\ result' = "none"
  /\ video_path' = "none" /\ thumb_path' = "none" /\ file_size' = 0 /\ route' = "none"
  /\ IF ~videos[i + 1].hasUrl
       THEN /\ failed_downloads' = failed_downloads
            /\ pc' = "vp_loop"
            /\ status' = LeftBehind(status, i)
            /\ UNCHANGED <<nStatus, escaped, otherFaults>>
       ELSE /\ \E ok \in BOOLEAN :
                 IF ok
                   THEN /\ status' = [LeftBehind(status, i) EXCEPT ![i + 1] = "downloading"]
                        /\ nStatus' = nStatus + 1
                        /\ pc' = "dsv_mkdtemp"
                        /\ UNCHANGED <<escaped, otherFaults>>
                   ELSE /\ escaped' = TRUE
                        /\ otherFaults' = OneMore(otherFaults)
                        /\ pc' = "done"
                        /\ status' = LeftBehind(status, i)
                        /\ UNCHANGED nStatus
            /\ UNCHANGED failed_downloads
  /\ UNCHANGED <<inputVars, fsVars, files, j, videos, total_videos,
                 successful_downloads, summary, nExtract, thrown, upVars, sanVars,
                 cropVars, metaVars, pendVars, msgVars, handles>>

\* lines 868-880: the next entry: counted as failed when it has no URL, else
\* its status message is created
VpLoop ==
  /\ pc = "vp_loop"
  /\ i < total_videos
  /\ i' = i + 1
  /\ processed' = Append(processed, videos[i + 1].id)
  /\ delivered' = FALSE
  /\ metadata' = "none" /\ exhausted' = FALSE /\ paced' = FALSE /\ vanished' = FALSE
  /\ result' = "none"
  /\ video_path' = "none" /\ thumb_path' = "none" /\ file_size' = 0 /\ route' = "none"
  /\ IF ~videos[i + 1].hasUrl
       THEN /\ failed_downloads' = failed_downloads + 1
            /\ pc' = "vp_loop"
            /\ status' = LeftBehind(status, i)
            /\ UNCHANGED <<nStatus, escaped, otherFaults>>
       ELSE /\ \E ok \in BOOLEAN :
                 IF ok
                   THEN /\ status' = [LeftBehind(status, i) EXCEPT ![i + 1] = "downloading"]
                        /\ nStatus' = nStatus + 1
                        /\ pc' = "dsv_mkdtemp"
                        /\ UNCHANGED <<escaped, otherFaults>>
                   ELSE /\ escaped' = TRUE
                        /\ otherFaults' = OneMore(otherFaults)
                        /\ pc' = "done"
                        /\ status' = LeftBehind(status, i)
                        /\ UNCHANGED nStatus
            /\ UNCHANGED failed_downloads
  /\ UNCHANGED <<inputVars, fsVars, files, j, videos, total_videos,
                 successful_downloads, summary, nExtract, thrown, upVars, sanVars,
                 cropVars, metaVars, pendVars, msgVars, handles>>

\* lines 889-893: the item is counted by what _handle_video_result returned,
\* then asyncio.sleep(2)
VpCount ==
  /\ pc = "vp_count"
  /\ IF result = "true"
       THEN /\ successful_downloads' = successful_downloads + 1
            /\ UNCHANGED failed_downloads
       ELSE /\ failed_downloads' = failed_downloads + 1
            /\ UNCHANGED successful_downloads
  /\ paced' = TRUE
  /\ pc' = "vp_loop"
  /\ UNCHANGED <<inputVars, metadata, exhausted, vanished, fsVars, artVars, status, videos, total_videos, i,
                 processed, summary, histVars, ctlVars, upVars, sanVars,
                 cropVars, metaVars, pendVars, msgVars, handles>>

\* lines 894-901: except Exception: counted as failed, the "Error on video" edit
VpExcept ==
  /\ pc = "vp_except"
  /\ failed_downloads' = failed_downloads + 1
  /\ \E ok \in BOOLEAN :
       IF ok
         THEN /\ SetStatus(FailureText("item_error", excText))
              /\ pc' = "vp_loop"
              /\ UNCHANGED <<escaped, otherFaults>>
         ELSE /\ escaped' = TRUE
              /\ otherFaults' = OneMore(otherFaults)
              /\ pc' = "done"
              /\ UNCHANGED status
  /\ UNCHANGED <<inputVars, obsVars, fsVars, artVars, videos, total_videos, i,
                 successful_downloads, processed, summary, nExtract, nStatus,
                 delivered, thrown, result, upVars, sanVars,
                 cropVars, metaVars, pendVars, msgVars, handles>>

\* lines 903-907: the summary message
SummaryOf(ok, failed, total) ==
  [downloaded |-> ok, total |-> total, failed |-> IF failed > 0 THEN failed ELSE 0]

VpSummary ==
  /\ pc = "vp_loop"
  /\ i = total_videos
  /\ \E ok \in BOOLEAN :
       /\ summary' = IF ok
                       THEN <<SummaryOf(successful_downloads, failed_downloads,
                                        total_videos)>>
                       ELSE summary
       /\ escaped' = ~ok
       /\ otherFaults' = IF ok THEN otherFaults ELSE OneMore(otherFaults)
  /\ pc' = "done"
  /\ UNCHANGED <<inputVars, obsVars, fsVars, artVars, status, videos, total_videos, i,
                 successful_downloads, failed_downloads, processed, nExtract,
                 nStatus, delivered, thrown, result, upVars, sanVars,
                 cropVars, metaVars, pendVars, msgVars, handles>>

(***************************************************************************)
(* process_audio_playlist (lines 624-751).                                 *)
(***************************************************************************)
\* lines 627-628: the manifest is fetched with extract_flat
ApFetch ==
  /\ pc = "ap_fetch"
  /\ \E ok \in BOOLEAN :
       /\ pc' = IF ok THEN "ap_check" ELSE "done"
       /\ escaped' = ~ok
       /\ otherFaults' = IF ok THEN otherFaults ELSE OneMore(otherFaults)
  /\ UNCHANGED <<inputVars, obsVars, fsVars, artVars, status, batchVars, nExtract, nStatus,
                 delivered, thrown, result, upVars, sanVars,
                 cropVars, metaVars, pendVars, msgVars, handles>>

\* lines 630-652: the size check, the slice, the "Audio Playlist detected" edit
ApCheck ==
  /\ pc = "ap_check"
  /\ \E ok \in BOOLEAN :
       /\ IF TooLarge(Len(manifest))
            THEN /\ status' = IF ok THEN [status EXCEPT ![0] = "too_large"] ELSE status
                 /\ pc' = "done"
                 /\ UNCHANGED <<videos, total_videos>>
            ELSE /\ videos' = TruncateEntries(manifest)
                 /\ total_videos' = Len(TruncateEntries(manifest))
                 /\ status' = IF ok THEN [status EXCEPT ![0] = "detected"] ELSE status
                 /\ pc' = IF ok THEN "ap_loop" ELSE "done"
       /\ escaped' = ~ok
       /\ otherFaults' = IF ok THEN otherFaults ELSE OneMore(otherFaults)
  /\ UNCHANGED <<inputVars, obsVars, fsVars, artVars, i, successful_downloads,
                 failed_downloads, processed, summary, nExtract, nStatus, delivered,
                 thrown, result, upVars, sanVars,
                 cropVars, metaVars, pendVars, msgVars, handles>>

\* lines 654-666: the next entry: counted as failed when it has no URL, else
\* its status message is created
ApLoop ==
  /\ pc = "ap_loop"
  /\ i < total_videos
  /\ i' = i + 1
  /\ processed' = Append(processed, videos[i + 1].id)
  /\ delivered' = FALSE
  /\ metadata' = "none" /\ exhausted' = FALSE /\ paced' = FALSE /\ vanished' = FALSE
  /\ file_size' = 0 /\ route' = "none"
  /\ IF ~videos[i + 1].hasUrl
       THEN /\ failed_downloads' = failed_downloads + 1
            /\ pc' = "ap_loop"
            /\ status' = LeftBehind(status, i)
            /\ UNCHANGED <<nStatus, escaped, otherFaults>>
       ELSE /\ \E ok \in BOOLEAN :
                 IF ok
                   THEN /\ status' = [LeftBehind(status, i) EXCEPT ![i + 1] = "downloading"]
                        /\ nStatus' = nStatus + 1
                        /\ pc' = "ap_mkdtemp"
                        /\ UNCHANGED <<escaped, otherFaults>>
                   ELSE /\ escaped' = TRUE
                        /\ otherFaults' = OneMore(otherFaults)
                        /\ pc' = "done"
                        /\ status' = LeftBehind(status, i)
                        /\ UNCHANGED nStatus
            /\ UNCHANGED failed_downloads
  /\ UNCHANGED <<inputVars, fsVars, video_path, thumb_path, files, j, videos,
                 total_videos, successful_downloads, summary, nExtract, thrown,
                 result, upVars, sanVars,
                 cropVars, metaVars, pendVars, msgVars, handles>>

\* line 669: temp_dir = tempfile.mkdtemp(), inside the try
ApMkdtemp ==
  /\ pc = "ap_mkdtemp"
  /\ Mkdtemp
  /\ pc' = "ap_extract"
  /\ UNCHANGED <<inputVars, obsVars, artVars, status, batchVars, histVars, ctlVars, upVars,
                 sanVars,
                 cropVars, metaVars, pendVars, msgVars, handles>>

\* lines 683-688: extract_info(video_url, download=True) and the test of the
\* converted file
ApExtract ==
  /\ pc = "ap_extract"
  /\ nExtract' = nExtract + 1
  /\ \E outcome \in {"throw", "exists", "missing"}, size \in Sizes :
       CASE outcome = "throw" ->
              /\ thrown' = thrown \cup {i}
              /\ pc' = "ap_except"
              /\ UNCHANGED <<file_size, otherFaults>>
         [] outcome = "missing" ->
              /\ otherFaults' = OneMore(otherFaults)
              /\ pc' = "ap_missing"
              /\ UNCHANGED <<file_size, thrown>>
         [] OTHER ->
              /\ file_size' = size
              /\ pc' = "ap_route"
              /\ UNCHANGED <<thrown, otherFaults>>
  /\ UNCHANGED <<inputVars, obsVars, fsVars, video_path, thumb_path, route, files, j, status,
                 batchVars, nStatus, delivered, ctlVars, upVars, sanVars,
                 cropVars, metaVars, pendVars, msgVars, handles>>

\* a different rule: the directory is removed before the channel is used
ApRoute_releasing ==
  /\ pc = "ap_route"
  /\ route' = RouteOfFile(file_size)
  /\ pc' = IF RouteOfFile(file_size) = "remote" THEN "up_attempt" ELSE "ap_send_audio"
  /\ UploadEnter
  /\ Rmtree(temp_dir)
  /\ UNCHANGED <<inputVars, obsVars, made, temp_dir, video_path, thumb_path, file_size, files, j,
                 status, batchVars, histVars, ctlVars, sanVars,
                 cropVars, metaVars, pendVars, msgVars, handles>>

\* line 696: the choice of the channel; line 707: the call of upload_to_gofile
ApRoute ==
  /\ pc = "ap_route"
  /\ route' = RouteOfFile(file_size)
  /\ pc' = IF RouteOfFile(file_size) = "remote" THEN "up_attempt" ELSE "ap_send_audio"
  /\ UploadEnter
  /\ UNCHANGED <<inputVars, obsVars, fsVars, video_path, thumb_path, file_size, files, j,
                 status, batchVars, histVars, ctlVars, sanVars,
                 cropVars, metaVars, pendVars, msgVars, handles>>

\* lines 697-705: send_audio
ApSendAudio ==
  /\ pc = "ap_send_audio"
  /\ \E ok \in BOOLEAN :
       IF ok
         THEN delivered' = TRUE /\ pc' = "ap_counted" /\ UNCHANGED otherFaults
         ELSE pc' = "ap_except" /\ otherFaults' = OneMore(otherFaults) /\ UNCHANGED delivered
  /\ UNCHANGED <<inputVars, obsVars, fsVars, artVars, status, batchVars, nExtract, nStatus,
                 thrown, ctlVars, upVars, sanVars,
                 cropVars, metaVars, pendVars, msgVars, handles>>

\* line 707: upload_to_gofile returned the link, or raised after its last attempt
ApUploadDone ==
  /\ pc \in {"up_return", "up_raise"}
  /\ kind = "aplaylist"
  /\ IF pc = "up_return"
       THEN pc' = "ap_send_link" /\ UNCHANGED otherFaults
       ELSE pc' = "ap_except" /\ otherFaults' = OneMore(otherFaults)
  /\ UploadEnter
  /\ exhausted' = (pc = "up_raise")
  /\ UNCHANGED <<inputVars, metadata, paced, vanished, fsVars, artVars, status, batchVars, nExtract, nStatus,
                 delivered, thrown, ctlVars, sanVars,
                 cropVars, metaVars, pendVars, msgVars, handles>>

\* lines 708-714: the caption with the Gofile link is sent
ApSendLink ==
  /\ pc = "ap_send_link"
  /\ \E ok \in BOOLEAN :
       IF ok
         THEN delivered' = TRUE /\ pc' = "ap_counted" /\ UNCHANGED otherFaults
         ELSE pc' = "ap_except" /\ otherFaults' = OneMore(otherFaults) /\ UNCHANGED delivered
  /\ UNCHANGED <<inputVars, obsVars, fsVars, artVars, status, batchVars, nExtract, nStatus,
                 thrown, ctlVars, upVars, sanVars,
                 cropVars, metaVars, pendVars, msgVars, handles>>

\* lines 715 and 726: successful_downloads += 1, then rmtree(temp_dir)
ApCounted ==
  /\ pc = "ap_counted"
  /\ successful_downloads' = successful_downloads + 1
  /\ Rmtree(temp_dir)
  /\ pc' = "ap_delete"
  /\ UNCHANGED <<inputVars, obsVars, made, temp_dir, artVars, status, videos, total_videos, i,
                 failed_downloads, processed, summary, histVars, ctlVars, upVars,
                 sanVars,
                 cropVars, metaVars, pendVars, msgVars, handles>>

\* lines 729-734: the status message is deleted, then asyncio.sleep(2)
ApDelete ==
  /\ pc = "ap_delete"
  /\ \E ok \in BOOLEAN :
       IF ok
         THEN /\ SetStatus("deleted")
              /\ paced' = TRUE
              /\ pc' = "ap_loop"
              /\ UNCHANGED otherFaults
         ELSE /\ pc' = "ap_except"
              /\ otherFaults' = OneMore(otherFaults)
              /\ UNCHANGED <<status, paced>>
  /\ UNCHANGED <<inputVars, metadata, exhausted, vanished, fsVars, artVars, batchVars, nExtract, nStatus, delivered,
                 thrown, ctlVars, upVars, sanVars,
                 cropVars, metaVars, pendVars, msgVars, handles>>

\* lines 716-723: the converted file is missing: counted as failed, the
\* "Error on audio" edit, continue
ApMissing ==
  /\ pc = "ap_missing"
  /\ failed_downloads' = failed_downloads + 1
  /\ \E ok \in BOOLEAN :
       IF ok
         THEN SetStatus("item_error") /\ pc' = "ap_loop" /\ UNCHANGED otherFaults
         ELSE /\ pc' = "ap_except"
              /\ otherFaults' = OneMore(otherFaults)
              /\ UNCHANGED status
  /\ UNCHANGED <<inputVars, obsVars, fsVars, artVars, videos, total_videos, i,
                 successful_downloads, processed, summary, nExtract, nStatus,
                 delivered, thrown, ctlVars, upVars, sanVars,
                 cropVars, metaVars, pendVars, msgVars, handles>>

\* a different rule: the handler counts the item and lets the exception go on
ApExcept_aborting ==
  /\ pc = "ap_except"
  /\ failed_downloads' = failed_downloads + 1
  /\ Rmtree(temp_dir)
  /\ escaped' = TRUE
  /\ pc' = "done"
  /\ UNCHANGED <<inputVars, obsVars, made, temp_dir, artVars, status, videos, total_videos, i,
                 successful_downloads, processed, summary, nExtract, nStatus,
                 delivered, thrown, otherFaults, result, upVars, sanVars,
                 cropVars, metaVars, pendVars, msgVars, handles>>

\* lines 736-745: except Exception: counted as failed, the "Error on audio"
\* edit, then rmtree(temp_dir)
ApExcept ==
  /\ pc = "ap_except"
  /\ failed_downloads' = failed_downloads + 1
  /\ \E ok \in BOOLEAN :
       IF ok
         THEN /\ SetStatus(FailureText("item_error", excText))
              /\ Rmtree(temp_dir)
              /\ pc' = "ap_loop"
              /\ UNCHANGED <<escaped, otherFaults>>
         ELSE /\ escaped' = TRUE
              /\ otherFaults' = OneMore(otherFaults)
              /\ pc' = "done"
              /\ UNCHANGED <<status, dirs>>
  /\ UNCHANGED <<inputVars, obsVars, made, temp_dir, artVars, videos, total_videos, i,
                 successful_downloads, processed, summary, nExtract, nStatus,
                 delivered, thrown, result, upVars, sanVars,
                 cropVars, metaVars, pendVars, msgVars, handles>>

\* lines 747-751: the summary message
ApSummary ==
  /\ pc = "ap_loop"
  /\ i = total_videos
  /\ \E ok \in BOOLEAN :
       /\ summary' = IF ok
                       THEN <<SummaryOf(successful_downloads, failed_downloads,
                                        total_videos)>>
                       ELSE summary
       /\ escaped' = ~ok
       /\ otherFaults' = IF ok THEN otherFaults ELSE OneMore(otherFaults)
  /\ pc' = "done"
  /\ UNCHANGED <<inputVars, obsVars, fsVars, artVars, status, videos, total_videos, i,
                 successful_downloads, failed_downloads, processed, nExtract,
                 nStatus, delivered, thrown, result, upVars, sanVars,
                 cropVars, metaVars, pendVars, msgVars, handles>>

(***************************************************************************)
(* handle_youtube_audio_download for one video (lines 498-546) and         *)
(* handle_youtube_music_audio_download (lines 428-488).                    *)
(***************************************************************************)
SingleAudioKinds == {"audio", "ytmusic"}

\* lines 498, 430: msg = reply_text("Downloading and Converting...")
SaStatusCreate ==
  /\ pc = "sa_status"
  /\ \E ok \in BOOLEAN :
       /\ status' = IF ok THEN [status EXCEPT ![0] = "converting"] ELSE status
       /\ pc' = IF ok THEN "sa_mkdtemp" ELSE "done"
       /\ escaped' = ~ok
       /\ otherFaults' = IF ok THEN otherFaults ELSE OneMore(otherFaults)
  /\ UNCHANGED <<inputVars, obsVars, fsVars, artVars, batchVars, nExtract, nStatus, delivered,
                 thrown, result, upVars, sanVars,
                 cropVars, metaVars, pendVars, msgVars, handles>>

\* lines 499, 431
SaMkdtemp ==
  /\ pc = "sa_mkdtemp"
  /\ Mkdtemp
  /\ pc' = "sa_extract"
  /\ UNCHANGED <<inputVars, obsVars, artVars, status, batchVars, histVars, ctlVars, upVars,
                 sanVars,
                 cropVars, metaVars, pendVars, msgVars, handles>>

\* lines 513-519 and 450-461: extract_info and the test of the converted file;
\* the YouTube Music handler also accepts the first *.<fmt> file of temp_dir
SaExtract ==
  /\ pc = "sa_extract"
  /\ nExtract' = nExtract + 1
  /\ \E outcome \in {"throw", "exists", "listed", "missing"}, size \in Sizes :
       /\ outcome = "listed" => kind = "ytmusic"
       /\ CASE outcome = "throw" ->
                 /\ thrown' = thrown \cup {0}
                 /\ pc' = "sa_except"
                 /\ UNCHANGED <<file_size, otherFaults>>
            [] outcome = "missing" ->
                 /\ otherFaults' = OneMore(otherFaults)
                 /\ pc' = "sa_missing"
                 /\ UNCHANGED <<file_size, thrown>>
            [] OTHER ->
                 /\ file_size' = size
                 /\ pc' = "sa_route"
                 /\ UNCHANGED <<thrown, otherFaults>>
  /\ UNCHANGED <<inputVars, obsVars, fsVars, video_path, thumb_path, route, files, j, status,
                 batchVars, nStatus, delivered, ctlVars, upVars, sanVars,
                 cropVars, metaVars, pendVars, msgVars, handles>>

\* lines 517-518, 457-458: the "Audio conversion failed." edit, return
SaMissing ==
  /\ pc = "sa_missing"
  /\ \E ok \in BOOLEAN :
       IF ok
         THEN /\ SetStatus("conversion_failed")
              /\ pc' = "sa_finally"
              /\ UNCHANGED otherFaults
         ELSE /\ pc' = "sa_except"
              /\ otherFaults' = OneMore(otherFaults)
              /\ UNCHANGED status
  /\ UNCHANGED <<inputVars, obsVars, fsVars, artVars, batchVars, nExtract, nStatus, delivered,
                 thrown, ctlVars, upVars, sanVars,
                 cropVars, metaVars, pendVars, msgVars, handles>>

\* lines 526, 468: the choice of the channel; lines 536, 478: the call of
\* upload_to_gofile
SaRoute ==
  /\ pc = "sa_route"
  /\ route' = RouteOfFile(file_size)
  /\ pc' = IF RouteOfFile(file_size) = "remote" THEN "up_attempt" ELSE "sa_send_audio"
  /\ UploadEnter
  /\ UNCHANGED <<inputVars, obsVars, fsVars, video_path, thumb_path, file_size, files, j,
                 status, batchVars, histVars, ctlVars, sanVars,
                 cropVars, metaVars, pendVars, msgVars, handles>>

\* lines 527-534, 469-476: reply_audio
SaSendAudio ==
  /\ pc = "sa_send_audio"
  /\ \E ok \in BOOLEAN :
       IF ok
         THEN delivered' = TRUE /\ pc' = "sa_delete" /\ UNCHANGED otherFaults
         ELSE pc' = "sa_except" /\ otherFaults' = OneMore(otherFaults) /\ UNCHANGED delivered
  /\ UNCHANGED <<inputVars, obsVars, fsVars, artVars, status, batchVars, nExtract, nStatus,
                 thrown, ctlVars, upVars, sanVars,
                 cropVars, metaVars, pendVars, msgVars, handles>>

\* lines 536, 478: upload_to_gofile returned the link, or raised
SaUploadDone ==
  /\ pc \in {"up_return", "up_raise"}
  /\ kind \in SingleAudioKinds
  /\ IF pc = "up_return"
       THEN pc' = "sa_send_link" /\ UNCHANGED otherFaults
       ELSE pc' = "sa_except" /\ otherFaults' = OneMore(otherFaults)
  /\ UploadEnter
  /\ exhausted' = (pc = "up_raise")
  /\ UNCHANGED <<inputVars, metadata, paced, vanished, fsVars, artVars, status, batchVars, nExtract, nStatus,
                 delivered, thrown, ctlVars, sanVars,
                 cropVars, metaVars, pendVars, msgVars, handles>>

\* lines 537-538, 479-480: reply_text with the Gofile link
SaSendLink ==
  /\ pc = "sa_send_link"
  /\ \E ok \in BOOLEAN :
       IF ok
         THEN delivered' = TRUE /\ pc' = "sa_delete" /\ UNCHANGED otherFaults
         ELSE pc' = "sa_except" /\ otherFaults' = OneMore(otherFaults) /\ UNCHANGED delivered
  /\ UNCHANGED <<inputVars, obsVars, fsVars, artVars, status, batchVars, nExtract, nStatus,
                 thrown, ctlVars, upVars, sanVars,
                 cropVars, metaVars, pendVars, msgVars, handles>>

\* lines 539, 481: msg.delete()
SaDelete ==
  /\ pc = "sa_delete"
  /\ \E ok \in BOOLEAN :
       IF ok
         THEN SetStatus("deleted") /\ pc' = "sa_finally" /\ UNCHANGED otherFaults
         ELSE pc' = "sa_except" /\ otherFaults' = OneMore(otherFaults) /\ UNCHANGED status
  /\ UNCHANGED <<inputVars, obsVars, fsVars, artVars, batchVars, nExtract, nStatus, delivered,
                 thrown, ctlVars, upVars, sanVars,
                 cropVars, metaVars, pendVars, msgVars, handles>>

\* lines 540-542, 482-484: except Exception: the "Failed to download" edit
SaExcept ==
  /\ pc = "sa_except"
  /\ \E ok \in BOOLEAN :
       /\ status' = IF ok
                      THEN [status EXCEPT ![0] = FailureText("failed", excText)]
                      ELSE status
       /\ escaped' = ~ok
       /\ otherFaults' = IF ok THEN otherFaults ELSE OneMore(otherFaults)
  /\ pc' = "sa_finally"
  /\ UNCHANGED <<inputVars, obsVars, fsVars, artVars, batchVars, nExtract, nStatus, delivered,
                 thrown, result, upVars, sanVars,
                 cropVars, metaVars, pendVars, msgVars, handles>>

\* lines 543-546, 485-488: finally: shutil.rmtree(temp_dir), errors passed over
SaFinally ==
  /\ pc = "sa_finally"
  /\ Rmtree(temp_dir)
  /\ pc' = "done"
  /\ UNCHANGED <<inputVars, obsVars, made, temp_dir, artVars, status, batchVars, histVars,
                 ctlVars, upVars, sanVars,
                 cropVars, metaVars, pendVars, msgVars, handles>>

(***************************************************************************)
(* handle_instagram_content (lines 310-390) with download_instagram_content*)
(* (lines 116-238) and download_instagram_fallback (lines 241-307).        *)
(***************************************************************************)
MaxInstaFiles == 2

\* downloaded_files, as the sizes of the files
FileLists == UNION {[1..n -> Sizes] : n \in 1..MaxInstaFiles}

\* line 118
Ig1Mkdtemp ==
  /\ pc = "ig1_mkdtemp"
  /\ Mkdtemp
  /\ pc' = "ig1_download"
  /\ UNCHANGED <<inputVars, obsVars, artVars, status, batchVars, histVars, ctlVars, upVars,
                 sanVars,
                 cropVars, metaVars, pendVars, msgVars, handles>>

\* the instaloader download, if its handler did not remove the directory
Ig1Download_keeping ==
  /\ pc = "ig1_download"
  /\ \E outcome \in {"no_shortcode", "edit_raised", "fetch_failed", "no_files", "ok"},
        fs \in FileLists :
       /\ status' = IF outcome \in {"fetch_failed", "no_files", "ok"}
                      THEN [status EXCEPT ![0] = "downloading"]
                      ELSE status
       /\ nExtract' = IF outcome \in {"fetch_failed", "no_files", "ok"}
                        THEN nExtract + 1 ELSE nExtract
       /\ thrown' = IF outcome = "fetch_failed" THEN thrown \cup {0} ELSE thrown
       /\ otherFaults' = IF outcome \in {"no_shortcode", "edit_raised", "no_files"}
                           THEN OneMore(otherFaults)
                           ELSE otherFaults
       /\ IF outcome = "ok"
            THEN files' = fs /\ pc' = "ig_sending_status" /\ UNCHANGED <<dirs, temp_dir>>
            ELSE /\ UNCHANGED dirs /\ temp_dir' = 0
                 /\ pc' = "ig2_mkdtemp"
                 /\ UNCHANGED files
  /\ UNCHANGED <<inputVars, obsVars, made, video_path, thumb_path, file_size, route, j,
                 batchVars, nStatus, delivered, ctlVars, upVars, sanVars,
                 cropVars, metaVars, pendVars, msgVars, handles>>

\* lines 120-238: the instaloader download; any exception (no shortcode, a
\* status edit, the fetch, no media file) removes temp_dir and returns None
Ig1Download ==
  /\ pc = "ig1_download"
  /\ \E outcome \in {"no_shortcode", "edit_raised", "fetch_failed", "no_files", "ok"},
        fs \in FileLists :
       /\ status' = IF outcome \in {"fetch_failed", "no_files", "ok"}
                      THEN [status EXCEPT ![0] = "downloading"]
                      ELSE status
       /\ nExtract' = IF outcome \in {"fetch_failed", "no_files", "ok"}
                        THEN nExtract + 1 ELSE nExtract
       /\ thrown' = IF outcome = "fetch_failed" THEN thrown \cup {0} ELSE thrown
       /\ otherFaults' = IF outcome \in {"no_shortcode", "edit_raised", "no_files"}
                           THEN OneMore(otherFaults)
                           ELSE otherFaults
       /\ IF outcome = "ok"
            THEN files' = fs /\ pc' = "ig_sending_status" /\ UNCHANGED <<dirs, temp_dir>>
            ELSE /\ Rmtree(temp_dir) /\ temp_dir' = 0
                 /\ pc' = "ig2_mkdtemp"
                 /\ UNCHANGED files
  /\ UNCHANGED <<inputVars, obsVars, made, video_path, thumb_path, file_size, route, j,
                 batchVars, nStatus, delivered, ctlVars, upVars, sanVars,
                 cropVars, metaVars, pendVars, msgVars, handles>>

\* line 243
Ig2Mkdtemp ==
  /\ pc = "ig2_mkdtemp"
  /\ Mkdtemp
  /\ pc' = "ig2_download"
  /\ UNCHANGED <<inputVars, obsVars, artVars, status, batchVars, histVars, ctlVars, upVars,
                 sanVars,
                 cropVars, metaVars, pendVars, msgVars, handles>>

\* lines 245-307: the yt-dlp fallback; any exception removes temp_dir and
\* returns None
Ig2Download ==
  /\ pc = "ig2_download"
  /\ \E outcome \in {"edit_raised", "extract_failed", "no_files", "ok"},
        fs \in FileLists :
       /\ status' = IF outcome # "edit_raised"
                      THEN [status EXCEPT ![0] = "alternative"]
                      ELSE status
       /\ nExtract' = IF outcome # "edit_raised" THEN nExtract + 1 ELSE nExtract
       /\ thrown' = IF outcome = "extract_failed" THEN thrown \cup {0} ELSE thrown
       /\ otherFaults' = IF outcome \in {"edit_raised", "no_files"}
                           THEN OneMore(otherFaults)
                           ELSE otherFaults
       /\ IF outcome = "ok"
            THEN files' = fs /\ pc' = "ig_sending_status" /\ UNCHANGED <<dirs, temp_dir>>
            ELSE /\ Rmtree(temp_dir) /\ temp_dir' = 0
                 /\ pc' = "ig_none_status"
                 /\ UNCHANGED files
  /\ UNCHANGED <<inputVars, obsVars, made, video_path, thumb_path, file_size, route, j,
                 batchVars, nStatus, delivered, ctlVars, upVars, sanVars,
                 cropVars, metaVars, pendVars, msgVars, handles>>

\* lines 321-327: both downloads failed: the "Failed to download" edit, return
IgNoneStatus ==
  /\ pc = "ig_none_status"
  /\ \E ok \in BOOLEAN :
       IF ok
         THEN SetStatus("ig_failed") /\ pc' = "ig_finally" /\ UNCHANGED otherFaults
         ELSE pc' = "ig_except" /\ otherFaults' = OneMore(otherFaults) /\ UNCHANGED status
  /\ UNCHANGED <<inputVars, obsVars, fsVars, artVars, batchVars, nExtract, nStatus, delivered,
                 thrown, ctlVars, upVars, sanVars,
                 cropVars, metaVars, pendVars, msgVars, handles>>

\* lines 329-333: the "Sending Instagram content..." edit
IgSendingStatus ==
  /\ pc = "ig_sending_status"
  /\ \E ok \in BOOLEAN :
       IF ok
         THEN SetStatus("sending") /\ pc' = "ig_file" /\ UNCHANGED otherFaults
         ELSE pc' = "ig_except" /\ otherFaults' = OneMore(otherFaults) /\ UNCHANGED status
  /\ j' = 1
  /\ UNCHANGED <<inputVars, obsVars, fsVars, video_path, thumb_path, file_size, route, files,
                 batchVars, nExtract, nStatus, delivered, thrown, ctlVars, upVars,
                 sanVars,
                 cropVars, metaVars, pendVars, msgVars, handles>>

\* lines 336-340, 362: the size of the file and the choice of the channel
IgFile ==
  /\ pc = "ig_file"
  /\ file_size' = files[j]
  /\ route' = RouteOfFile(files[j])
  /\ pc' = IF RouteOfFile(files[j]) = "remote" THEN "up_attempt" ELSE "ig_send_media"
  /\ UploadEnter
  /\ UNCHANGED <<inputVars, obsVars, fsVars, video_path, thumb_path, files, j, status,
                 batchVars, histVars, ctlVars, sanVars,
                 cropVars, metaVars, pendVars, msgVars, handles>>

\* after a file: the next one (lines 372-373), or the end of the loop
AfterFile == IF j < Len(files) THEN "ig_file" ELSE "ig_delete"

\* lines 341-359: send_video or send_photo
IgSendMedia ==
  /\ pc = "ig_send_media"
  /\ \E ok \in BOOLEAN :
       IF ok
         THEN /\ delivered' = TRUE
              /\ pc' = AfterFile
              /\ j' = IF j < Len(files) THEN j + 1 ELSE j
              /\ UNCHANGED otherFaults
         ELSE pc' = "ig_except" /\ otherFaults' = OneMore(otherFaults) /\ UNCHANGED <<delivered, j>>
  /\ UNCHANGED <<inputVars, obsVars, fsVars, video_path, thumb_path, file_size, route, files,
                 status, batchVars, nExtract, nStatus, thrown, ctlVars, upVars,
                 sanVars,
                 cropVars, metaVars, pendVars, msgVars, handles>>

\* line 362: upload_to_gofile returned the link, or raised
IgUploadDone ==
  /\ pc \in {"up_return", "up_raise"}
  /\ kind = "instagram"
  /\ IF pc = "up_return"
       THEN pc' = "ig_send_link" /\ UNCHANGED otherFaults
       ELSE pc' = "ig_except" /\ otherFaults' = OneMore(otherFaults)
  /\ UploadEnter
  /\ exhausted' = (pc = "up_raise")
  /\ UNCHANGED <<inputVars, metadata, paced, vanished, fsVars, artVars, status, batchVars, nExtract, nStatus,
                 delivered, thrown, ctlVars, sanVars,
                 cropVars, metaVars, pendVars, msgVars, handles>>

\* lines 363-369: send_message with the Gofile link
IgSendLink ==
  /\ pc = "ig_send_link"
  /\ \E ok \in BOOLEAN :
       IF ok
         THEN /\ delivered' = TRUE
              /\ pc' = AfterFile
              /\ j' = IF j < Len(files) THEN j + 1 ELSE j
              /\ UNCHANGED otherFaults
         ELSE pc' = "ig_except" /\ otherFaults' = OneMore(otherFaults) /\ UNCHANGED <<delivered, j>>
  /\ UNCHANGED <<inputVars, obsVars, fsVars, video_path, thumb_path, file_size, route, files,
                 status, batchVars, nExtract, nStatus, thrown, ctlVars, upVars,
                 sanVars,
                 cropVars, metaVars, pendVars, msgVars, handles>>

\* lines 375-379: the status message is deleted
IgDelete ==
  /\ pc = "ig_delete"
  /\ \E ok \in BOOLEAN :
       IF ok
         THEN SetStatus("deleted") /\ pc' = "ig_finally" /\ UNCHANGED otherFaults
         ELSE pc' = "ig_except" /\ otherFaults' = OneMore(otherFaults) /\ UNCHANGED status
  /\ UNCHANGED <<inputVars, obsVars, fsVars, artVars, batchVars, nExtract, nStatus, delivered,
                 thrown, ctlVars, upVars, sanVars,
                 cropVars, metaVars, pendVars, msgVars, handles>>

\* lines 381-387: except Exception: the "An error occurred" edit
IgExcept ==
  /\ pc = "ig_except"
  /\ \E ok \in BOOLEAN :
       /\ status' = IF ok
                      THEN [status EXCEPT ![0] = FailureText("error", excText)]
                      ELSE status
       /\ escaped' = ~ok
       /\ otherFaults' = IF ok THEN otherFaults ELSE OneMore(otherFaults)
  /\ pc' = "ig_finally"
  /\ UNCHANGED <<inputVars, obsVars, fsVars, artVars, batchVars, nExtract, nStatus, delivered,
                 thrown, result, upVars, sanVars,
                 cropVars, metaVars, pendVars, msgVars, handles>>

\* lines 388-390: finally: rmtree(temp_dir) when it is set and exists
IgFinally ==
  /\ pc = "ig_finally"
  /\ IF temp_dir # 0 /\ temp_dir \in dirs THEN Rmtree(temp_dir) ELSE UNCHANGED dirs
  /\ pc' = IF escaped THEN "uh_except" ELSE "done"
  /\ UNCHANGED <<inputVars, obsVars, made, temp_dir, artVars, status, batchVars, histVars,
                 ctlVars, upVars, sanVars,
                 cropVars, metaVars, pendVars, msgVars, handles>>

\* lines 1094-1100: url_handler's except Exception, reached by an exception
\* that left handle_instagram_content: the "unexpected error" edit; its
\* finally (1101-1104) finds temp_dir None
UhExcept ==
  /\ pc = "uh_except"
  /\ \E ok \in BOOLEAN :
       /\ status' = IF ok
                      THEN [status EXCEPT ![0] = FailureText("unexpected", excText)]
                      ELSE status
       /\ otherFaults' = IF ok THEN otherFaults ELSE OneMore(otherFaults)
  /\ pc' = "done"
  /\ UNCHANGED <<inputVars, obsVars, fsVars, artVars, batchVars, nExtract, nStatus,
                 delivered, thrown, ctlVars, upVars, sanVars, cropVars, metaVars, pendVars, msgVars, handles>>

(***************************************************************************)
(* The job: one handler run on one request.                                *)
(***************************************************************************)
StartOf(k) ==
  CASE k = "video" -> "dsv_mkdtemp"
    [] k = "vplaylist" -> "vp_check"
    [] k = "aplaylist" -> "ap_fetch"
    [] k \in SingleAudioKinds -> "sa_status"
    [] k = "instagram" -> "ig1_mkdtemp"

\* the message the handler is given: the keyboard message of the callback
\* query, or url_handler's "Processing your link..."; the single-audio
\* handlers create their own
GivenStatus(k) ==
  CASE k \in SingleAudioKinds -> "absent"
    [] k = "instagram" -> "processing"
    [] OTHER -> "given"

\* a job of any kind; every exception of the run carries one of the texts
JobInit(texts, manifests) ==
  /\ kind \in JobKinds
  /\ manifest \in (IF kind \in PlaylistKinds THEN manifests ELSE {NoEntries})
  /\ excText \in texts
  /\ pc = StartOf(kind)
  /\ status = [NoStatus EXCEPT ![0] = GivenStatus(kind)]
  /\ PipelineIdle /\ UploadIdle /\ SanitizeIdle /\ CropIdle /\ MetaIdle /\ PendIdle /\ MsgIdle

Init == JobInit({"Timed out"}, Manifests)

Next ==
  \/ DsvMkdtemp \/ DsvStartStatus \/ DsvExtract \/ DsvThumbnail \/ DsvRename
  \/ DsvExcept
  \/ FileVanishes \/ HvrStart \/ HvrLargeStatus \/ HvrUploadDone \/ HvrSendLink \/ HvrSendStatus
  \/ HvrSendVideo \/ HvrSent \/ HvrDelete \/ HvrFailStatus \/ HvrExcept \/ HvrFinally
  \/ VpCheck \/ VpLoop \/ VpCount \/ VpExcept \/ VpSummary
  \/ ApFetch \/ ApCheck \/ ApLoop \/ ApMkdtemp \/ ApExtract \/ ApRoute
  \/ ApSendAudio \/ ApUploadDone \/ ApSendLink \/ ApCounted \/ ApDelete
  \/ ApMissing \/ ApExcept \/ ApSummary
  \/ SaStatusCreate \/ SaMkdtemp \/ SaExtract \/ SaMissing \/ SaRoute
  \/ SaSendAudio \/ SaUploadDone \/ SaSendLink \/ SaDelete \/ SaExcept \/ SaFinally
  \/ Ig1Mkdtemp \/ Ig1Download \/ Ig2Mkdtemp \/ Ig2Download \/ IgNoneStatus
  \/ IgSendingStatus \/ IgFile \/ IgSendMedia \/ IgUploadDone \/ IgSendLink
  \/ IgDelete \/ IgExcept \/ IgFinally \/ UhExcept
  \/ UploadNextStep

Spec == Init /\ [][Next]_vars

\* the same jobs on playlists of at most one entry, with either text
MaxShort == 1
ShortManifests == {m \in Manifests : Len(m) <= MaxShort}

InitTexts == JobInit(ExcTexts, ShortManifests)

SpecTexts == InitTexts /\ [][Next]_vars

(***************************************************************************)
(* sanitize_filename applied once and twice to a drawn string.             *)
(***************************************************************************)
InitSanitize ==
  /\ kind = "sanitize" /\ manifest = NoEntries /\ excText = NoText /\ pc = "san_start"
  /\ status = NoStatus
  /\ PipelineIdle /\ UploadIdle /\ CropIdle /\ MetaIdle /\ PendIdle /\ MsgIdle
  /\ name \in SanInputs /\ san1 = <<>> /\ san2 = <<>>

SanitizeFirst ==
  /\ pc = "san_start"
  /\ san1' = sanitize_filename(name, DefaultMaxLength)
  /\ pc' = "san_once"
  /\ UNCHANGED <<inputVars, obsVars, fsVars, artVars, status, batchVars, histVars, ctlVars,
                 upVars, name, san2, cropVars, metaVars, pendVars, msgVars, handles>>

SanitizeAgain ==
  /\ pc = "san_once"
  /\ san2' = sanitize_filename(san1, DefaultMaxLength)
  /\ pc' = "san_twice"
  /\ UNCHANGED <<inputVars, obsVars, fsVars, artVars, status, batchVars, histVars, ctlVars,
                 upVars, name, san1, cropVars, metaVars, pendVars, msgVars, handles>>

SanitizeNext == SanitizeFirst \/ SanitizeAgain

SpecSanitize == InitSanitize /\ [][SanitizeNext]_vars

(***************************************************************************)
(* The crop of the thumbnail (lines 817-824), on the sizes alone.          *)
(***************************************************************************)
MaxDim == 12

\* line 822: the side of the resized thumbnail
ThumbSide == 320

\* lines 818-821: w, h = img.size; crop_size = min(w, h);
\* left, top = (w - crop_size) // 2, (h - crop_size) // 2;
\* the box is (left, top, left + crop_size, top + crop_size)
crop_size(w, h) == Min(w, h)

\* a different rule: the offsets are not halved
CropBox_unhalved(w, h) ==
  LET left == w - crop_size(w, h)
      top  == h - crop_size(w, h)
  IN  <<left, top, left + crop_size(w, h), top + crop_size(w, h)>>

CropBox(w, h) ==
  LET left == (w - crop_size(w, h)) \div 2
      top  == (h - crop_size(w, h)) \div 2
  IN  <<left, top, left + crop_size(w, h), top + crop_size(w, h)>>

\* Image.crop: the size of the region (left, upper, right, lower)
SizeOfBox(b) == <<b[3] - b[1], b[4] - b[2]>>

\* Image.resize((320, 320), LANCZOS): the requested size, whatever the source
Resize(size, target) == target

\* the sizes tried: every small size and the common video frames
ImageSizes ==
  ((1..MaxDim) \X (1..MaxDim))
    \cup {<<1920, 1080>>, <<1080, 1920>>, <<1280, 720>>, <<480, 360>>, <<320, 320>>}

InitCrop ==
  /\ kind = "crop" /\ manifest = NoEntries /\ excText = NoText /\ pc = "crop_open"
  /\ status = NoStatus
  /\ PipelineIdle /\ UploadIdle /\ SanitizeIdle /\ MetaIdle /\ PendIdle /\ MsgIdle
  /\ img \in ImageSizes /\ box = <<>> /\ thumb = <<>>

\* lines 817-821: Image.open, img.size, img.crop
CropImage ==
  /\ pc = "crop_open"
  /\ box' = CropBox(img[1], img[2])
  /\ pc' = "crop_resize"
  /\ UNCHANGED <<inputVars, obsVars, fsVars, artVars, status, batchVars, histVars,
                 ctlVars, upVars, sanVars, img, thumb, metaVars, pendVars, msgVars, handles>>

\* line 822: img_cropped.resize((320, 320), Image.LANCZOS)
ResizeImage ==
  /\ pc = "crop_resize"
  /\ thumb' = Resize(SizeOfBox(box), <<ThumbSide, ThumbSide>>)
  /\ pc' = "crop_done"
  /\ UNCHANGED <<inputVars, obsVars, fsVars, artVars, status, batchVars, histVars,
                 ctlVars, upVars, sanVars, img, box, metaVars, pendVars, msgVars, handles>>

CropNext == CropImage \/ ResizeImage

SpecCrop == InitCrop /\ [][CropNext]_vars

(***************************************************************************)
(* The metadata of the artifact (lines 800-803), on the dictionary alone.  *)
(***************************************************************************)
\* a key that is not in the dictionary, and Python's None as a value
Absent == "<absent>"
None == "<None>"

\* the keys read and the values tried: omitted, null, the empty string, and
\* two names
MetaKeys == {"uploader", "uploader_id", "title"}
MetaValues == {Absent, None, "", "Alice", "Bob"}

\* dict.get(key, default): the default replaces a missing key only
DictGet(d, key, default) == IF d[key] = Absent THEN default ELSE d[key]

InitMeta ==
  /\ kind = "metadata" /\ manifest = NoEntries /\ excText = NoText
  /\ pc = "meta_start"
  /\ status = NoStatus
  /\ PipelineIdle /\ UploadIdle /\ SanitizeIdle /\ CropIdle /\ PendIdle /\ MsgIdle
  /\ info_dict \in [MetaKeys -> MetaValues]
  /\ uploader = "" /\ title = ""

\* line 801: uploader = info_dict.get('uploader', info_dict.get('uploader_id', 'Unknown'))
GetUploader ==
  /\ pc = "meta_start"
  /\ uploader' = DictGet(info_dict, "uploader",
                         DictGet(info_dict, "uploader_id", "Unknown"))
  /\ pc' = "meta_title"
  /\ UNCHANGED <<inputVars, obsVars, fsVars, artVars, status, batchVars, histVars,
                 ctlVars, upVars, sanVars, cropVars, pendVars, msgVars, info_dict, title, handles>>

\* line 802: title = info_dict.get('title', 'No Title')
GetTitle ==
  /\ pc = "meta_title"
  /\ title' = DictGet(info_dict, "title", "No Title")
  /\ pc' = "meta_done"
  /\ UNCHANGED <<inputVars, obsVars, fsVars, artVars, status, batchVars, histVars,
                 ctlVars, upVars, sanVars, cropVars, pendVars, msgVars, info_dict, uploader, handles>>

MetaNext == GetUploader \/ GetTitle

SpecMeta == InitMeta /\ [][MetaNext]_vars

(***************************************************************************)
(* Claims about the workspace, the routing and the batch (under Spec).     *)
(***************************************************************************)
\* the job has completed, or the loop of a batch stands between two items
Completed == pc \in {"done", "vp_loop", "ap_loop"}

\* the calls that have failed in this job
Failures == Cardinality(thrown) + otherFaults

\* C1: for every job kind, with no failure or with one failure at any one
\* stage, every temporary directory created by the job or item no longer
\* exists once the job or item has completed.
C1_WorkspaceRemoved == Completed /\ Failures <= 1 => dirs = {}

InlineLimit == MAX_FILE_SIZE_MB * MiB

UploadPcs ==
  {"up_attempt", "up_post", "up_answer", "up_except", "up_next", "up_return", "up_raise"}
InlineSendPcs ==
  {"hvr_send_video", "hvr_sending", "ap_send_audio", "sa_send_audio", "ig_send_media"}

\* C2: an artifact of s bytes goes to the remote upload if and only if
\* s > MAX_FILE_SIZE_MB * 1024 * 1024, on every delivery path: the upload runs
\* only for an artifact routed remote, an inline send only for one routed
\* inline, exactly MAX_FILE_SIZE_MB MiB is inline and one byte more is remote.
C2_RemoteIffOverLimit ==
  /\ route # "none" => (route = "remote" <=> file_size > InlineLimit)
  /\ pc \in UploadPcs => route = "remote" /\ file_size > InlineLimit
  /\ pc \in InlineSendPcs => route = "inline" /\ file_size <= InlineLimit
  /\ RouteOfVideo(InlineLimit) = "inline" /\ RouteOfVideo(InlineLimit + 1) = "remote"
  /\ RouteOfFile(InlineLimit) = "inline" /\ RouteOfFile(InlineLimit + 1) = "remote"

\* C2 witness: a single video one byte over the limit is being uploaded.
C2_Witness ==
  /\ kind = "video"
  /\ file_size = InlineLimit + 1
  /\ pc = "up_post"

\* the ids of the first n entries of a manifest, in manifest order
Ids(n) == [k \in 1..n |-> k]

\* C3: a manifest of more than MAX_PLAYLIST_SIZE entries is rejected wholesale
\* (no item status, no extraction, no workspace, both counters zero, no
\* summary); of a manifest of at most MAX_PLAYLIST_SIZE entries the slice drops
\* none, the entries are processed in manifest order and, when the batch has
\* ended, every one of them has been processed; in both orchestrators.
C3_SizeRule ==
  kind \in PlaylistKinds =>
    IF Len(manifest) > MAX_PLAYLIST_SIZE
      THEN /\ nStatus = 0 /\ nExtract = 0 /\ made = 0
           /\ successful_downloads = 0 /\ failed_downloads = 0
           /\ summary = <<>> /\ processed = <<>>
      ELSE /\ processed = Ids(i)
           /\ i > 0 => videos = manifest
           /\ pc = "done" => processed = Ids(Len(manifest))

\* the entries among the first n that carry no URL
Urlless(n) == Cardinality({k \in 1..n : ~videos[k].hasUrl})

C5_OneCounterPerItem ==
  kind \in PlaylistKinds =>
    /\ successful_downloads + failed_downloads <= i
    /\ pc \in {"vp_loop", "ap_loop"} => successful_downloads + failed_downloads = i
    /\ summary # <<>> => successful_downloads + failed_downloads = total_videos

(***************************************************************************)
(* Claims about upload_to_gofile (under SpecUpload).                       *)
(***************************************************************************)
\* C6: upload_to_gofile makes at most 5 upload attempts; an attempt answered
\* with status "ok" ends the call, which returns that attempt's download page
\* (so the first such attempt k, 1 <= k <= 5, is the one returned); when all 5
\* fail the call raises, and no 6th attempt is made.
C6_AtMostFiveAttempts ==
  /\ attempt + 1 <= 5 /\ posts <= attempt + 1
  /\ pc \in {"up_next", "up_except", "up_return", "up_raise"} /\ lastOutcome = "ok" =>
       pc = "up_return"
  /\ pc = "up_return" =>
       lastOutcome = "ok" /\ upResult = attempt + 1 /\ upResult \in 1..5
  /\ pc # "up_return" => upResult = 0
  /\ pc = "up_raise" => attempt + 1 = 5 /\ lastOutcome \notin {"ok", "none"}
  /\ pc \in {"up_return", "up_raise"} => ~ENABLED UploadNextStep

\* C6 witness: five attempts were POSTed and failed, the call raises.
C6_Witness == pc = "up_raise" /\ posts = 5

\* C7: between failed attempt i (0-based) and attempt i+1 the client sleeps
\* exactly base_delay * 2^i seconds (5, 10, 20, 40), so every two consecutive
\* attempts are separated by a sleep, and no sleep follows the 5th attempt.
C7_BackoffBetweenAttempts ==
  /\ pc = "up_attempt" /\ attempt > 0 => slept = base_delay * (2 ^ (attempt - 1))
  /\ pc = "up_attempt" /\ attempt > 0 => slept \in {5, 10, 20, 40}
  /\ pc = "up_raise" => slept = 0

\* C8: a response whose body status is not "ok" is handled like a transport
\* failure of the same attempt: it uses up the attempt, the same backoff sleep
\* follows it, and after the 5th attempt the same error is raised.
C8_NotOkLikeTransportFailure ==
  pc = "up_next" /\ lastOutcome \in {"not_ok", "transport_error"} =>
    /\ slept = BackoffAfter(attempt)
    /\ upResult = 0
    /\ attempt + 1 = max_retries => ENABLED (UploadNext /\ pc' = "up_raise")

(***************************************************************************)
(* Claims about sanitize_filename.                                         *)
(***************************************************************************)
\* C9: for every string x, sanitize_filename(sanitize_filename(x)) equals
\* sanitize_filename(x), at the default max_length of 100.
C9_Idempotent == pc = "san_twice" => san2 = san1

\* C9 witness: a string longer than max_length whose truncation leaves trailing
\* whitespace has been sanitized twice.
C9_Witness ==
  /\ pc = "san_twice"
  /\ Len(name) > DefaultMaxLength
  /\ name[DefaultMaxLength] \in Whitespace
  /\ Len(san1) < DefaultMaxLength
  /\ san1 # unknown_media

AllInvalid(s) == s # <<>> /\ \A k \in 1..Len(s) : s[k] \in InvalidChars

\* C10 (as stated): sanitize_filename returns "unknown_media" for the empty
\* string and for every non-empty string made only of invalid characters.
C10_AllInvalidIsUnknown ==
  pc = "san_once" /\ (name = <<>> \/ AllInvalid(name)) => san1 = unknown_media

\* C10 (amended): "unknown_media" for the empty string and for a string made
\* only of whitespace; a non-empty string made only of invalid characters
\* gives one "_" per character, at most max_length of them.
C10_AllInvalidIsUnderscores ==
  pc = "san_once" =>
    /\ name = <<>> => san1 = unknown_media
    /\ (\A k \in 1..Len(name) : name[k] \in Whitespace) => san1 = unknown_media
    /\ AllInvalid(name) =>
         san1 = Pad("_", Min(Len(name), DefaultMaxLength))

\* C10 witness: a string of invalid characters longer than max_length has been
\* sanitized.
C10_Witness ==
  /\ pc = "san_once"
  /\ AllInvalid(name)
  /\ Len(name) > DefaultMaxLength
  /\ san1 # unknown_media

(***************************************************************************)
(* Claims about the status surface and the batch (under Spec).             *)
(***************************************************************************)
LoopHeads == {"vp_loop", "ap_loop"}

\* C11: a failing status call (create, edit, delete) never changes the result
\* of the pipeline: a video that was sent makes _handle_video_result return
\* True, a delivered playlist item is counted as succeeded and never enters a
\* failure handler, and extraction has been attempted whenever
\* download_single_video returns, also when the 'Starting download' edit failed.
C11_StatusFailureHarmless ==
  /\ kind \in VideoKinds /\ pc = "hvr_finally" /\ delivered => result = "true"
  /\ pc = "vp_count" /\ delivered => result = "true"
  /\ pc \in {"vp_except", "ap_except"} => ~delivered
  /\ kind = "video" /\ pc = "hvr_start" => nExtract = 1

\* C12: a playlist batch that passed the size check ends only at the summary
\* step, after its last item: no exception raised while an item is processed
\* (in the item's error handler or while its status message is created) ends
\* the batch before the summary is sent.
C12_BatchReachesSummary ==
  kind \in PlaylistKinds /\ pc = "done" /\ status[0] = "detected"
    => i = total_videos

\* the text _handle_video_result leaves on the status message when an inline
\* send_video failed (line 977)
InlineFailureTexts == {"error"}

\* C13: when upload_to_gofile has raised after its last attempt, the text left
\* on the status message tells that the upload failed: it is not the text
\* shown after a failed inline transfer.
C13_UploadFailureReported ==
  kind \in VideoKinds /\ exhausted /\ pc = "hvr_finally" /\ result = "false"
    => status[CurStatus] \notin InlineFailureTexts

\* C14: the failure of a thumbnail step never fails the download: from the
\* thumbnail block download_single_video goes on to the rename and returns,
\* never to its failure handler; the video path, the title and the uploader
\* stay set and the working directory is neither changed nor removed.
C14_ThumbnailFailureContained ==
  [][(pc = "dsv_thumbnail" \/ pc = "dsv_rename") =>
       (/\ pc' \in {"dsv_rename", "hvr_start"}
        /\ video_path' # "none" /\ metadata' = "set"
        /\ temp_dir' = temp_dir /\ temp_dir \in dirs /\ dirs' = dirs)]_vars

\* a download returned its artifact although the save of the thumbnail failed
C14_Witness ==
  /\ pc = "hvr_start" /\ thumb_path = "unwritten"
  /\ video_path # "none" /\ metadata = "set" /\ temp_dir \in dirs

\* C15: after the thumbnail block the thumbnail path is set only when the
\* processed 320x320 thumbnail was written; it is None whenever a step of the
\* block failed, the final JPEG save included.
C15_ThumbnailPathOnlyWhenWritten ==
  pc \in {"dsv_rename", "hvr_start"} => thumb_path \in {"none", "written"}

(***************************************************************************)
(* Claim about the crop of the thumbnail (under SpecCrop).                 *)
(***************************************************************************)
\* C16: the crop box of a w x h image is the square of side s = min(w, h)
\* with left = (w - s) div 2 and top = (h - s) div 2; it lies inside the
\* image, its margins on either side differ by at most one pixel, and the
\* resized thumbnail is exactly 320 x 320.  A 1920 x 1080 image gives the side
\* 1080 with x-offset 420 and y-offset 0.
C16_CentredSquareCrop ==
  pc # "crop_open" /\ kind = "crop" =>
    LET w == img[1]
        h == img[2]
        s == IF w <= h THEN w ELSE h
    IN  /\ SizeOfBox(box) = <<s, s>>
        /\ box[1] = (w - s) \div 2 /\ box[2] = (h - s) \div 2
        /\ 0 <= box[1] /\ box[3] <= w /\ 0 <= box[2] /\ box[4] <= h
        /\ (w - box[3]) - box[1] \in {0, 1} /\ (h - box[4]) - box[2] \in {0, 1}
        /\ (w > h => box[2] = 0 /\ box[4] = h) /\ (h > w => box[1] = 0 /\ box[3] = w)
        /\ (img = <<1920, 1080>> => box = <<420, 0, 1500, 1080>>)
        /\ (pc = "crop_done" => thumb = <<320, 320>>)

\* the 1920 x 1080 frame has been cropped and resized
C16_Witness ==
  pc = "crop_done" /\ img = <<1920, 1080>> /\ box[1] = 420 /\ thumb = <<320, 320>>

\* C17: an entry without URL is counted as failed by the one step that meets
\* it, and by nothing else: that step makes no extraction, creates no working
\* directory and no status message, and leaves the loop at its head for the
\* next entry; no status message and no extraction ever belong to such an entry.
C17_UrllessStep ==
  (pc \in LoopHeads /\ i < total_videos /\ ~videos[i + 1].hasUrl) =>
    /\ failed_downloads' = failed_downloads + 1
    /\ successful_downloads' = successful_downloads
    /\ nExtract' = nExtract /\ nStatus' = nStatus
    /\ made' = made /\ dirs' = dirs
    /\ i' = i + 1 /\ pc' = pc /\ ~escaped'

C17_UrllessEntrySkipped ==
  /\ [](\A k \in 1..i : kind \in PlaylistKinds /\ ~videos[k].hasUrl =>
          status[k] = "absent" /\ k \notin thrown)
  /\ [][C17_UrllessStep]_vars

\* an entry without URL was skipped and the entry after it is being extracted
C17_Witness ==
  /\ i = 2 /\ ~videos[1].hasUrl /\ pc \in {"dsv_extract", "ap_extract"}
  /\ failed_downloads = 1 /\ nStatus = 1 /\ made = 1

\* C18: the items are taken in the order of the manifest, and when the status
\* message of an item is created the status message of every earlier item has
\* been deleted (or was never created), whatever the outcome of that item.
C18_StatusRetiredBeforeNext ==
  kind \in PlaylistKinds =>
    /\ processed = [k \in 1..i |-> videos[k].id]
    /\ \A k \in 1..(i - 1) : status[k] \in {"absent", "deleted"}

\* the texts that end the life of an item's status message when it is not
\* deleted (lines 969, 977, 899 and 720/741)
FailureTexts == {"unavailable", "error", "item_error"}

\* C18 (amended): the items are taken in the order of the manifest, and when
\* the loop goes on to the next item the status message of the item it leaves
\* is settled: deleted, which happens only for a delivered item, or left
\* showing a failure text; it never stays at a progress text.
C18_StatusSettledBeforeNext ==
  kind \in PlaylistKinds =>
    /\ processed = [k \in 1..i |-> videos[k].id]
    /\ pc \in LoopHeads /\ i >= 1 /\ videos[i].hasUrl =>
         /\ status[i] \in {"deleted"} \cup FailureTexts
         /\ status[i] = "deleted" => delivered
    /\ \A k \in 1..(i - 1) : status[k] \in {"absent", "deleted", "shown"}

\* the status message of item 1 was deleted and the one of item 2 is created
C18_Witness ==
  /\ i = 2 /\ pc \in {"dsv_mkdtemp", "ap_mkdtemp"}
  /\ status[1] = "deleted" /\ status[2] = "downloading"

\* C19: when the loop goes on after an item that had a URL, the 2-second
\* pacing delay has run, whatever the outcome of the item (delivered,
\* extraction failed, converted file missing, exception caught at the item
\* boundary).
C19_PacedAfterEveryItem ==
  pc \in LoopHeads /\ i >= 1 /\ videos[i].hasUrl => paced

(***************************************************************************)
(* Claim about the texts shown after a failure (under SpecTexts).          *)
(***************************************************************************)
\* the texts a status message can show: the progress texts, the failure texts
\* and the marks of a message that is absent, deleted or left behind
ProgressTexts ==
  {"given", "processing", "detected", "too_large", "downloading", "starting",
   "thumbnail", "uploading", "sending", "converting", "alternative"}
HandlerTexts ==
  {"error", "item_error", "failed", "unexpected", "unavailable",
   "conversion_failed", "ig_failed"}
FixedTexts == ProgressTexts \cup HandlerTexts \cup {"absent", "deleted", "shown"}

\* C20: every text shown to the user, after a failure in particular, comes
\* from a fixed set and is the same whatever the text of the exception: no
\* status message ever shows the text of an exception, and a summary holds
\* the counters only.
C20_FailureTextsFixed ==
  /\ \A m \in DOMAIN status : status[m] \in FixedTexts /\ status[m] \notin ExcTexts
  /\ \A n \in 1..Len(summary) :
       DOMAIN summary[n] = {"downloaded", "total", "failed"}
         /\ \A f \in DOMAIN summary[n] : summary[n][f] \in Nat

\* an except handler has shown its text in a run whose exceptions carry the
\* second text
C20_Witness ==
  /\ excText = "Forbidden: bot was blocked by the user"
  /\ otherFaults >= 1
  /\ \/ pc = "hvr_finally" /\ result = "false" /\ status[CurStatus] = "error"
     \/ pc = "done" /\ kind = "instagram" /\ status[0] = "unexpected"

(***************************************************************************)
(* Claims about the artifact and its working directory (under Spec).       *)
(***************************************************************************)
\* _handle_video_result was given no artifact: the extraction failed
NoArtifact == video_path = "none"

\* the 'content unavailable' step of _handle_video_result has run for the
\* current item
C21_FailStep ==
  (pc = "hvr_fail_status" /\ pc' = "hvr_finally") =>
    (status'[CurStatus] = "unavailable" /\ result' = "false")

\* C21: _handle_video_result treats a failed extraction and an artifact whose
\* file is not on disk alike: both go to the 'content unavailable' branch, and
\* only they do; for neither an inline send or an upload is started; when the
\* edit of that branch returns the status shows the one 'content unavailable'
\* text and the result is False; such an item is never delivered.
C21_MissingFileLikeFailure ==
  /\ [](pc \in {"hvr_fail_status"} => (NoArtifact \/ vanished))
  /\ [](kind \in VideoKinds /\ (NoArtifact \/ vanished) =>
          /\ pc \notin UploadPcs \cup InlineSendPcs
          /\ pc \notin {"hvr_large_status", "hvr_send_status", "hvr_send_link"}
          /\ route = "none" /\ ~delivered /\ posts = 0 /\ result # "true")
  /\ [][C21_FailStep]_vars

\* the file of a returned artifact was missing and the item ended with the
\* 'content unavailable' text and the result False
C21_Witness ==
  /\ pc = "hvr_finally" /\ vanished /\ video_path # "none"
  /\ status[CurStatus] = "unavailable" /\ result = "false"

\* the same end after a failed extraction
C21_WitnessFailure ==
  /\ pc = "hvr_finally" /\ NoArtifact /\ CurStatus \in thrown
  /\ status[CurStatus] = "unavailable" /\ result = "false"

\* the pass of the loop has chosen a fallback server: its lookup failed
C22_LookupStep ==
  (pc = "up_attempt" /\ pc' # pc) =>
    /\ pc' = "up_post" /\ attempt' = attempt /\ posts' = posts
    /\ server' = 0 \/ server' \in 1..9

C22_PostStep ==
  (pc = "up_post" /\ server \in FallbackServers /\ pc' # pc) =>
    /\ attempt' = attempt
    /\ lastOutcome' # "open_error" => posts' = posts + 1

\* C22: a failed lookup of the server (timeout, HTTP error, malformed body)
\* neither fails nor uses up an attempt: the same pass of the loop goes on
\* to the POST with a fallback server among store1..store9, and the file is
\* POSTed in that pass whenever it can be opened.
C22_LookupFailureFallsBack ==
  /\ [](pc = "up_post" => server = 0 \/ server \in 1..9)
  /\ [](pc = "up_except" => lastOutcome \in RaisingOutcomes)
  /\ [][C22_LookupStep]_vars
  /\ [][C22_PostStep]_vars

\* in the last pass the lookup failed and store9 was chosen; every earlier
\* pass has made its POST and this pass is about to make its own
C22_Witness ==
  /\ pc = "up_post" /\ server = 9
  /\ attempt = max_retries - 1 /\ posts = max_retries - 1

\* a step of the video pipeline that changes the set of directories on disk
C23_DirStep ==
  (kind \in VideoKinds /\ dirs' # dirs) =>
    \/ pc = "dsv_mkdtemp" /\ dirs' = dirs \cup {made + 1} /\ made + 1 \notin dirs
    \/ /\ pc = "dsv_except"
       /\ temp_dir \in dirs /\ dirs' = dirs \ {temp_dir}
       /\ temp_dir' = 0 /\ video_path' = "none"
    \/ /\ pc = "hvr_finally"
       /\ temp_dir \in dirs /\ dirs' = dirs \ {temp_dir}

\* C23: in the video pipeline the working directory of a job or item is
\* removed exactly once: it is on disk from its creation until
\* download_single_video removes it after a failed extraction (and then hands
\* no directory to _handle_video_result) or until the finally of
\* _handle_video_result removes it, also when the delivery, the upload or the
\* handler's own edit raised; no other step removes it, and none is left when
\* the job or item has ended.
C23_RemovedExactlyOnce ==
  /\ [](kind \in VideoKinds =>
          /\ dirs \subseteq {made} /\ (temp_dir # 0 => temp_dir = made)
          /\ pc \in {"dsv_status", "dsv_extract", "dsv_thumbnail", "dsv_rename",
                     "dsv_except"} => temp_dir \in dirs
          /\ (pc = "hvr_start" \/ pc = "hvr_finally") =>
               (IF video_path = "none" THEN temp_dir = 0 /\ dirs = {}
                                       ELSE temp_dir \in dirs)
          /\ Completed => dirs = {})
  /\ [][C23_DirStep]_vars

\* a single video whose delivery raised and whose handler's edit raised as
\* well has ended, and its directory is gone
C23_Witness ==
  /\ kind = "video" /\ pc = "done" /\ result = "raise" /\ escaped
  /\ made = 1 /\ temp_dir = 1 /\ dirs = {}

\* C24: in process_audio_playlist at most one working directory is on disk at
\* any time, and none when the loop goes on to the next item: the directory
\* of item N is removed before the one of item N+1 is created, whatever
\* branch item N took.
C24_OneWorkspaceAtATime ==
  kind = "aplaylist" =>
    /\ Cardinality(dirs) <= 1
    /\ pc = "ap_loop" => dirs = {}

\* the steps of a delivery: the status edit that announces it, the inline
\* send, the passes of the upload and the sending of the link
DeliveryPcs ==
  UploadPcs \cup InlineSendPcs \cup
    {"hvr_large_status", "hvr_send_status", "hvr_send_link", "ap_route",
     "ap_send_link", "sa_route", "sa_send_link", "ig_send_link"}

\* C25: the working directory is never removed while the delivery of its
\* artifact is in progress: from the end of the extraction until the inline
\* send has returned, or the upload has returned or raised after its last
\* attempt, the directory with the artifact is on disk, and no step of a
\* delivery changes the set of directories; on every delivery path.
C25_NoReleaseDuringDelivery ==
  /\ [](pc \in DeliveryPcs => temp_dir # 0 /\ temp_dir \in dirs)
  /\ [](kind \in VideoKinds /\ pc \in DeliveryPcs => video_path # "none")
  /\ [][(pc \in DeliveryPcs) => dirs' = dirs]_vars

\* the fifth pass of an upload is on its way and the directory is on disk
C25_Witness ==
  /\ pc = "up_post" /\ attempt = max_retries - 1
  /\ temp_dir \in dirs /\ kind \in JobKinds

\* C26: at every place where a playlist item is counted, it is counted as
\* succeeded exactly when its artifact has reached the user (inline or as a
\* link): process_playlist counts by the returned flag, which is True exactly
\* for a delivered item; the failure handlers of both loops and the
\* missing-file branch count undelivered items only; line 715 counts
\* delivered items only.
C26_SucceededIffDelivered ==
  /\ pc = "vp_count" => (result = "true" <=> delivered)
  /\ pc \in {"vp_except", "ap_except", "ap_missing"} => ~delivered
  /\ pc = "ap_counted" => delivered

\* what the batch shows when the loop leaves its first item: the two
\* counters, the directories on disk, whether the pacing delay ran and
\* whether the status message of the item was deleted
BatchEvents ==
  <<successful_downloads, failed_downloads, dirs, paced, status[1] = "deleted">>

\* the events of an item by its outcome alone, as process_playlist produces
\* them: a delivered item, and an item that was not delivered (extraction
\* failed, produced file missing, delivery failed)
EventsOf(wasDelivered) ==
  IF wasDelivered THEN <<1, 0, {}, TRUE, TRUE>> ELSE <<0, 1, {}, TRUE, FALSE>>

\* the first item had a URL and the loop has left it, with no failing call
\* when it was delivered and with at most one when it was not
FirstItemLeft ==
  /\ pc \in LoopHeads /\ i = 1 /\ videos[1].hasUrl
  /\ Failures <= (IF delivered THEN 0 ELSE 1)

\* C27: for the same outcome of an item, process_playlist and
\* process_audio_playlist produce the same events: the same counts, the same
\* removal of the working directory, the same pacing delay and the same
\* retirement of the status message.
C27_SameBatchMachine ==
  kind \in PlaylistKinds /\ FirstItemLeft => BatchEvents = EventsOf(delivered)

(***************************************************************************)
(* Claim about the metadata (under SpecMeta).                              *)
(***************************************************************************)
\* a field carries a value: it is present and not null
Carries(d, key) == d[key] \notin {Absent, None}

\* C28: the title and the author are never null: the author is 'uploader'
\* when that field carries a value, otherwise 'uploader_id' when that one
\* does, otherwise "Unknown"; the title is 'title' when it carries a value,
\* otherwise "No Title"; a null field counts as an omitted one.
C28_MetadataDefaults ==
  /\ pc \in {"meta_title", "meta_done"} =>
       /\ uploader # None
       /\ uploader = IF Carries(info_dict, "uploader") THEN info_dict["uploader"]
                     ELSE IF Carries(info_dict, "uploader_id")
                            THEN info_dict["uploader_id"]
                            ELSE "Unknown"
  /\ pc = "meta_done" =>
       /\ title # None
       /\ title = IF Carries(info_dict, "title") THEN info_dict["title"]
                  ELSE "No Title"

\* the rename step of download_single_video; a failed rename is the one call
\* that fails in this step, which the count of failed calls shows while it
\* still counts
C29_RenameStep ==
  (pc = "dsv_rename" /\ pc' # pc) =>
    /\ pc' = "hvr_start"
    /\ video_path' \in {video_path, "renamed"}
    /\ otherFaults <= 1 =>
         video_path' = IF otherFaults' # otherFaults THEN video_path ELSE "renamed"
    /\ video_path' # "none" /\ metadata' = "set"
    /\ temp_dir' = temp_dir /\ temp_dir \in dirs' /\ ~vanished'

MaxKeyboards == 3

\* the links the user submits; extract_info reports the last as a playlist
\* (Python's True and False are written as in Python)
Urls == {"A", "B", "P"}
IsPlaylistUrl(u) == IF u = "P" THEN "True" ELSE "False"

PendingKeys == {"pending_youtube_url", "pending_youtube_is_playlist",
                "pending_youtube_audio_url", "pending_youtube_audio_is_playlist"}

\* get_youtube_audio_format_keyboard: the callback data after "ytaudiofmt|"
AudioFormats == {"mp3", "flac", "wav"}

InitPending ==
  /\ kind = "format_choice" /\ manifest = NoEntries /\ excText = NoText
  /\ pc = "idle"
  /\ status = NoStatus
  /\ PipelineIdle /\ UploadIdle /\ SanitizeIdle /\ CropIdle /\ MetaIdle /\ MsgIdle
  /\ user_data = [k \in PendingKeys |-> Absent]
  /\ keyboards = <<>>
  /\ started = {}

\* url_handler for a YouTube link: the flat extraction may raise (the handler's
\* except edits the status message), and so may the edit that shows the keyboard
UhYoutube ==
  /\ pc = "idle"
  /\ Len(keyboards) < MaxKeyboards
  /\ \E url \in Urls, outcome \in {"shown", "extract_raises", "edit_raises"} :
       /\ user_data' =
            IF outcome = "extract_raises" THEN user_data
            ELSE [user_data EXCEPT !["pending_youtube_url"] = url,
                                   !["pending_youtube_is_playlist"] = IsPlaylistUrl(url)]
       /\ keyboards' =
            IF outcome = "shown"
            THEN Append(keyboards, [url |-> url, markup |-> "ytfmt"])
            ELSE keyboards
  /\ UNCHANGED <<inputVars, pc, obsVars, fsVars, artVars, status, batchVars,
                 histVars, ctlVars, upVars, sanVars, cropVars, metaVars, msgVars, started, handles>>

\* context.user_data.get(key, default)
UserDataGet(key, default) == DictGet(user_data, key, default)

\* youtube_format_callback, "ytfmt|video" pressed on message k: the download
\* starts for the stored link once the message is edited
YoutubeFormatVideo ==
  /\ pc = "idle"
  /\ \E k \in DOMAIN keyboards, edited \in BOOLEAN :
       LET url == UserDataGet("pending_youtube_url", None)
           is_playlist == UserDataGet("pending_youtube_is_playlist", "False")
       IN /\ keyboards[k].markup = "ytfmt"
          /\ keyboards' = IF edited
                          THEN [keyboards EXCEPT ![k].markup = "none"]
                          ELSE keyboards
          /\ started' = IF edited /\ url # None
                        THEN started \cup {[shown |-> keyboards[k].url, url |-> url,
                                            is_playlist |-> is_playlist,
                                            format |-> "video"]}
                        ELSE started
  /\ UNCHANGED <<inputVars, pc, obsVars, fsVars, artVars, status, batchVars,
                 histVars, ctlVars, upVars, sanVars, cropVars, metaVars, msgVars, user_data, handles>>

\* youtube_format_callback, "ytfmt|audio" pressed on message k: the stored link
\* and flag are copied, then the message shows the audio formats
YoutubeFormatAudio ==
  /\ pc = "idle"
  /\ \E k \in DOMAIN keyboards, edited \in BOOLEAN :
       LET url == UserDataGet("pending_youtube_url", None)
           is_playlist == UserDataGet("pending_youtube_is_playlist", "False")
       IN /\ keyboards[k].markup = "ytfmt"
          /\ user_data' =
               IF url = None THEN user_data
               ELSE [user_data EXCEPT !["pending_youtube_audio_url"] = url,
                                      !["pending_youtube_audio_is_playlist"] = is_playlist]
          /\ keyboards' = IF edited
                          THEN [keyboards EXCEPT ![k].markup =
                                  IF url = None THEN "none" ELSE "ytaudiofmt"]
                          ELSE keyboards
  /\ UNCHANGED <<inputVars, pc, obsVars, fsVars, artVars, status, batchVars,
                 histVars, ctlVars, upVars, sanVars, cropVars, metaVars, msgVars, started, handles>>

\* youtube_audio_format_callback, "ytaudiofmt|<fmt>" pressed on message k
YoutubeAudioFormat ==
  /\ pc = "idle"
  /\ \E k \in DOMAIN keyboards, fmt \in AudioFormats, edited \in BOOLEAN :
       LET url == UserDataGet("pending_youtube_audio_url", None)
           is_playlist == UserDataGet("pending_youtube_audio_is_playlist", "False")
       IN /\ keyboards[k].markup = "ytaudiofmt"
          /\ keyboards' = IF edited
                          THEN [keyboards EXCEPT ![k].markup = "none"]
                          ELSE keyboards
          /\ started' = IF edited /\ url # None
                        THEN started \cup {[shown |-> keyboards[k].url, url |-> url,
                                            is_playlist |-> is_playlist,
                                            format |-> fmt]}
                        ELSE started
  /\ UNCHANGED <<inputVars, pc, obsVars, fsVars, artVars, status, batchVars,
                 histVars, ctlVars, upVars, sanVars, cropVars, metaVars, msgVars, user_data, handles>>

PendingNext ==
  \/ UhYoutube
  \/ YoutubeFormatVideo
  \/ YoutubeFormatAudio
  \/ YoutubeAudioFormat

SpecPending == InitPending /\ [][PendingNext]_vars

\* C30: every download that a format button starts is for the link of the
\* message that carried the pressed keyboard, and is handled as a playlist
\* exactly when that link is one (submitting A, then B, then pressing A's
\* button downloads A)
C30_ButtonUsesItsOwnUrl ==
  \A d \in started :
    /\ d.url = d.shown
    /\ d.is_playlist = IsPlaylistUrl(d.shown)

\* A was submitted, then B, and the button under A's message started a download
\* of B
C30_PressedADownloadedB ==
  /\ Len(keyboards) >= 2
  /\ keyboards[1].url = "A" /\ keyboards[2].url = "B"
  /\ keyboards[1].markup = "none" /\ keyboards[2].markup = "ytfmt"
  /\ started = {[shown |-> "A", url |-> "B", is_playlist |-> "False",
                 format |-> "video"]}

(***************************************************************************)
(* url_handler (lines 1036-1104): the message, its dispatch and the status *)
(* message "Processing your link...".                                      *)
(***************************************************************************)
\* the longest message, in fragments
MaxFragments == 3

\* the pieces a message is built from: the text is their concatenation
Fragments == {"music.", "youtube.com", "youtu.be", "instagram.com", "/", " ", "x"}
Messages == UNION {[1..n -> Fragments] : n \in 1..MaxFragments}

\* Python's "sub in s"
Contains(s, sub) ==
  \E k \in 0..(Len(s) - Len(sub)) : SubSeq(s, k + 1, k + Len(sub)) = sub

\* line 1039: url = update.message.text.strip()
Url == strip(msg_text)

\* line 1051: re.search(r"(instagram\.com|youtube\.com|youtu\.be)", url)
IsSupported(u) ==
  \/ Contains(u, <<"instagram.com">>)
  \/ Contains(u, <<"youtube.com">>)
  \/ Contains(u, <<"youtu.be">>)

\* the branch url_handler takes for a link, in the order of its tests
\* (lines 1042, 1051, 1059, 1064)
BranchOf(u) ==
  CASE Contains(u, <<"music.", "youtube.com", "/">>) -> "music"
    [] ~IsSupported(u) -> "unrecognized"
    [] Contains(u, <<"instagram.com">>) -> "instagram"
    [] Contains(u, <<"youtube.com", "/">>) \/ Contains(u, <<"youtu.be", "/">>) -> "youtube"
    [] OTHER -> "none"

InitMessage ==
  /\ kind = "message" /\ manifest = NoEntries /\ excText = "Timed out"
  /\ pc = "uh_start"
  /\ status = NoStatus
  /\ PipelineIdle /\ UploadIdle /\ SanitizeIdle /\ CropIdle /\ MetaIdle
  /\ user_data = [k \in PendingKeys \cup {"pending_ytmusic_url"} |-> Absent]
  /\ keyboards = <<>> /\ started = {}
  /\ msg_text \in Messages
  /\ dispatched = <<>>

\* lines 1038-1053: the tests before the status message; a music link is
\* stored and answered with the format keyboard (the reply may raise: nothing
\* catches it), any other text without a supported host is ignored
UhEntry ==
  /\ pc = "uh_start"
  /\ LET branch == BranchOf(Url)
     IN /\ dispatched' = IF branch \in {"music", "unrecognized"}
                         THEN Append(dispatched, branch)
                         ELSE dispatched
        /\ user_data' = IF branch = "music"
                        THEN [user_data EXCEPT !["pending_ytmusic_url"] = Url]
                        ELSE user_data
        /\ \E replied \in BOOLEAN :
             /\ keyboards' = IF branch = "music" /\ replied
                             THEN Append(keyboards, [url |-> Url, markup |-> "ytmusicfmt"])
                             ELSE keyboards
             /\ escaped' = (branch = "music" /\ ~replied)
        /\ pc' = IF branch \in {"music", "unrecognized"} THEN "done" ELSE "uh_status"
  /\ UNCHANGED <<inputVars, obsVars, fsVars, artVars, status, batchVars, histVars,
                 result, upVars, sanVars, cropVars, metaVars, started, msg_text, handles>>

\* line 1055: status_msg = await update.message.reply_text(...), outside the try
UhStatusCreate ==
  /\ pc = "uh_status"
  /\ \E ok \in BOOLEAN :
       /\ status' = IF ok THEN [status EXCEPT ![0] = "processing"] ELSE status
       /\ escaped' = ~ok
       /\ pc' = IF ok THEN "uh_dispatch" ELSE "done"
  /\ UNCHANGED <<inputVars, obsVars, fsVars, artVars, batchVars, histVars,
                 result, upVars, sanVars, cropVars, metaVars, pendVars, msgVars, handles>>

\* lines 1057-1065: the two tests inside the try; a link that passes neither
\* falls through to the finally
UhDispatch ==
  /\ pc = "uh_dispatch"
  /\ LET branch == BranchOf(Url)
     IN /\ dispatched' = IF branch = "none" THEN dispatched
                         ELSE Append(dispatched, branch)
        /\ kind' = IF branch = "instagram" THEN "instagram" ELSE kind
        /\ pc' = CASE branch = "instagram" -> StartOf("instagram")
                   [] branch = "youtube" -> "uh_extract"
                   [] OTHER -> "done"
  /\ UNCHANGED <<manifest, excText, obsVars, fsVars, artVars, status, batchVars,
                 histVars, ctlVars, upVars, sanVars, cropVars, metaVars, pendVars,
                 msg_text, handles>>

\* lines 1066-1092: the flat extraction, the pending link and flag, and the
\* edit that shows the format keyboard; an exception of either call goes to
\* the except of line 1094
UhKeyboard ==
  /\ pc = "uh_extract"
  /\ \E outcome \in {"shown", "extract_raises", "edit_raises"}, is_playlist \in BOOLEAN :
       /\ user_data' =
            IF outcome = "extract_raises" THEN user_data
            ELSE [user_data EXCEPT
                    !["pending_youtube_url"] = Url,
                    !["pending_youtube_is_playlist"] =
                        IF is_playlist THEN "True" ELSE "False"]
       /\ keyboards' = IF outcome = "shown"
                       THEN Append(keyboards, [url |-> Url, markup |-> "ytfmt"])
                       ELSE keyboards
       /\ status' = IF outcome = "shown"
                    THEN [status EXCEPT ![0] = "keyboard"]
                    ELSE status
       /\ otherFaults' = IF outcome = "shown" THEN otherFaults ELSE OneMore(otherFaults)
       /\ pc' = IF outcome = "shown" THEN "done" ELSE "uh_except"
  /\ UNCHANGED <<inputVars, obsVars, fsVars, artVars, batchVars, nExtract, nStatus,
                 delivered, thrown, ctlVars, upVars, sanVars, cropVars, metaVars,
                 started, msgVars, handles>>

MessageNext ==
  \/ UhEntry \/ UhStatusCreate \/ UhDispatch \/ UhKeyboard
  \/ Ig1Mkdtemp \/ Ig1Download \/ Ig2Mkdtemp \/ Ig2Download \/ IgNoneStatus
  \/ IgSendingStatus \/ IgFile \/ IgSendMedia \/ IgUploadDone \/ IgSendLink
  \/ IgDelete \/ IgExcept \/ IgFinally \/ UhExcept
  \/ UploadNextStep

SpecMessage == InitMessage /\ [][MessageNext]_vars

\* C31: url_handler gives each message to exactly one of the branches music,
\* Instagram, YouTube or unrecognized, the first in this order whose test the
\* link passes; and when no call to Telegram fails, a handler that created the
\* "Processing your link..." message ends with that message showing something
\* else (a keyboard, a result, an error) or deleted
C31_ClassifiedOnceIndicatorRetired ==
  (kind \in {"message", "instagram"} /\ pc = "done" /\ otherFaults = 0 /\ ~escaped) =>
    /\ dispatched =
         << CASE Contains(Url, <<"music.", "youtube.com", "/">>) -> "music"
              [] Contains(Url, <<"instagram.com">>) -> "instagram"
              [] Contains(Url, <<"youtube.com">>) \/ Contains(Url, <<"youtu.be">>)
                   -> "youtube"
              [] OTHER -> "unrecognized" >>
    /\ status[0] # "processing"

\* the message "youtube.com", with no slash after the host: no call failed, the
\* handler has returned, no branch was taken and the status message still
\* reads "Processing your link..."
C31_IndicatorLeftShowing ==
  /\ msg_text = <<"youtube.com">>
  /\ pc = "done" /\ otherFaults = 0 /\ ~escaped
  /\ dispatched = <<>>
  /\ status[0] = "processing"

\* the positions of handle_instagram_content between the download that
\* produced the files and its finally
IgSendPcs == {"ig_sending_status", "ig_file", "ig_send_media", "ig_send_link",
              "ig_delete"} \cup UploadPcs

\* the steps of handle_instagram_content that C32 is about
C32_FallbackStep ==
  kind = "instagram" =>
    \* the fallback follows the first download exactly when it produced no files
    /\ (pc = "ig1_download" /\ pc' # pc) =>
         /\ (pc' = "ig2_mkdtemp") <=> (files' = <<>>)
         /\ files' = <<>> => dirs' = {}
         /\ files' # <<>> => pc' = "ig_sending_status"
    \* the fallback workspace is created after the first one is removed
    /\ (made' # made /\ made >= 1) =>
         pc = "ig2_mkdtemp" /\ made = 1 /\ files = <<>> /\ dirs = {}
    \* after both failed: the "failed to download" edit, or the edit raised
    /\ (pc = "ig_none_status" /\ pc' # pc) =>
         \/ pc' = "ig_finally" /\ status'[0] = "ig_failed"
         \/ pc' = "ig_except" /\ status' = status
    /\ status[0] = "ig_failed" => status'[0] = "ig_failed"
    \* the workspace of the files is removed by the finally alone
    /\ (files # <<>> /\ dirs' # dirs) => (pc = "ig_finally" /\ dirs' = {})

\* C32: in handle_instagram_content the yt-dlp fallback runs if and only if
\* the instaloader download produced no files; the first workspace is removed
\* before the fallback's is created, so at most one exists; when both fail
\* nothing is sent and the status shows the one "failed to download" message;
\* the workspace that produced the files stays until the last file is sent
\* or a send raised, and is removed then
C32_FallbackAndWorkspace ==
  /\ [](kind = "instagram" =>
          /\ Cardinality(dirs) <= 1
          /\ pc = "ig2_mkdtemp" => files = <<>> /\ dirs = {}
          /\ pc = "ig_none_status" => made = 2 /\ files = <<>> /\ dirs = {}
          /\ files = <<>> => ~delivered /\ posts = 0 /\ pc \notin IgSendPcs
          /\ pc \in IgSendPcs => files # <<>> /\ temp_dir \in dirs
          /\ (pc = "ig_except" /\ files # <<>>) => temp_dir \in dirs
          /\ pc = "done" => dirs = {})
  /\ [][C32_FallbackStep]_vars

\* both downloads failed: two workspaces were made, none is left, nothing was
\* sent and the status shows the "failed to download" message
C32_Witness ==
  /\ kind = "instagram" /\ pc = "done"
  /\ made = 2 /\ nExtract = 2 /\ files = <<>> /\ dirs = {}
  /\ ~delivered /\ status[0] = "ig_failed"

\* the steps that end a send or an upload attempt, and those that remove a
\* workspace
C33_HandleStep ==
  /\ (pc = "hvr_sending" /\ pc' # pc) =>
       /\ "video" \in handles
       /\ handles' = {}
       /\ pc' \in {"hvr_delete", "hvr_except"}
  /\ (pc = "up_answer" /\ pc' # pc) =>
       /\ handles = {"upload"}
       /\ handles' = {}
       /\ pc' \in {"up_return", "up_except", "up_next"}
  /\ dirs' # dirs => handles = {} /\ handles' = {}

\* C33: every file handle opened for a delivery (the video of an inline send,
\* its thumbnail, the file of an upload attempt) is closed when that send or
\* attempt ends, whether it returned or raised; handles are open only while
\* the send or the attempt is in flight, and none is open when a workspace is
\* removed
C33_HandlesClosed ==
  /\ [](handles # {} =>
          /\ pc \in {"hvr_sending", "up_answer"}
          /\ temp_dir \in dirs)
  /\ [](pc = "hvr_sending" =>
          /\ "video" \in handles /\ handles \subseteq {"video", "thumb"}
          /\ thumb_path = "written" => "thumb" \in handles)
  /\ [](pc = "up_answer" => handles = {"upload"})
  /\ [][C33_HandleStep]_vars

\* the POST of the first upload attempt raised after the file was opened: the
\* handle is closed, the workspace is still on disk
C33_Witness ==
  /\ kind = "video" /\ pc = "up_except"
  /\ lastOutcome = "transport_error" /\ posts = 1 /\ attempt = 0
  /\ handles = {} /\ temp_dir \in dirs

====
